---- MODULE Spec2Model ----
(***************************************************************************)
(* Model of the RISC-V Extensions Landscape encoder validator              *)
(* (src/src/risc_v_visualizer.jsx).                                        *)
(*                                                                         *)
(* Representation.                                                         *)
(*  - A non-negative BigInt is the set of the positions of its one-bits    *)
(*    (bit 0 is the least significant).  x & y is x \cap y, x | y is       *)
(*    x \cup y, x ^ y is the symmetric difference and x & ~y is x \ y.     *)
(*    null is the set NULL, which is no bit set.                           *)
(*  - A JavaScript string is the sequence of its characters, each a        *)
(*    one-character TLA+ string; '' is << >>.                              *)
(*  - An error message is a tuple whose first element is the message and   *)
(*    whose further elements are the values interpolated into it; a null   *)
(*    error is << >>.                                                      *)
(***************************************************************************)
EXTENDS Integers, Sequences, FiniteSets, TLC

VARIABLES
    extensions,                  \* the catalog data imported from riscv_extensions.json
    allInstructionPatterns,      \* the memoized pattern list built from it
    encoderValidatorOpen,        \* React state of the Encoder Validator modal
    encoderValidatorInput,
    encoderValidatorResult,
    encoderValidatorCopyStatus,
    copiesInFlight,              \* Copy report handlers awaiting the clipboard
    clipboardHasReport,          \* whether a report has been written to the clipboard
    patA, patB, patRet,          \* a pair of patterns and the last helper result
    encodingArg, encodingRet,    \* a token and the results of converting it
    hexArg, hexRet,              \* a hex text and the results of parsing it
    instrDict,                   \* sync_instructions.mjs: src/instr_dict.json
    extensionInstructions,       \* the object literal read from the visualizer source
    extensionsCatalog,           \* src/riscv_extensions.json, as the script reads and writes it
    syncRuns,                    \* completed runs of the script
    braceText, braceRet          \* a text and what findMatchingBrace returned for it

uiVars == <<extensions, allInstructionPatterns, encoderValidatorOpen, encoderValidatorInput,
            encoderValidatorResult, encoderValidatorCopyStatus, copiesInFlight,
            clipboardHasReport>>

patVars == <<patA, patB, patRet>>

encVars == <<encodingArg, encodingRet>>

hexVars == <<hexArg, hexRet>>

scriptVars ==
    <<instrDict, extensionInstructions, extensionsCatalog, syncRuns, braceText, braceRet>>

vars == <<uiVars, patVars, encVars, hexVars, scriptVars>>

-----------------------------------------------------------------------------
(* Bounds of the model.                                                    *)

\* number of bit positions of the 32-bit word that the enumerated inputs vary
NumActiveBits == 3

\* number of bit positions the hex texts typed into the validator vary
NumInputBits == 2

\* largest number of instructions in the imported catalog data
MaxInstructions == 3

\* largest number of Copy report clicks whose clipboard write is still awaited
MaxCopiesInFlight == 1

\* Hex texts hold up to this many characters after the prefix.
MaxHexDigits == 2

\* Texts scanned for a closing brace hold up to this many characters.
MaxBraceTextLen == 5

\* The sync script is run up to this many times in a row.
MaxSyncRuns == 2

\* An extension lists up to this many mnemonics.
MaxMnemonics == 2

-----------------------------------------------------------------------------
(* BigInt arithmetic on bit sets.                                          *)

BIT_WIDTH == 32

\* (1n << BIT_WIDTH) - 1n : the low BIT_WIDTH bits are one
BIT_MASK_32 == 0 .. (BIT_WIDTH - 1)

NULL == {-1}

\* x ?? d
Nullish(x, d) == IF x = NULL THEN d ELSE x

BitAnd(x, y) == x \cap y

BitOr(x, y) == x \cup y

BitXor(x, y) == (x \ y) \cup (y \ x)

\* x & ~y (the only way the source uses ~)
BitAndNot(x, y) == x \ y

\* 1n << bit
Bit(bit) == {bit}

\* The bit positions the enumerated inputs vary: 0, 31, 1, 30, 2, ...
ActiveBit(i) == IF i % 2 = 1 THEN (i - 1) \div 2 ELSE BIT_WIDTH - (i \div 2)

ActiveBits == {ActiveBit(i) : i \in 1 .. NumActiveBits}

\* every BigInt whose one-bits are active bits
ActiveValues == SUBSET ActiveBits

-----------------------------------------------------------------------------
(* Strings and hexadecimal text.                                           *)

\* the characters \s matches among those the inputs use
Whitespace == {" ", "\t"}

\* String.prototype.trim
RECURSIVE trim(_)
trim(text) ==
    IF text = << >> THEN << >>
    ELSE IF Head(text) \in Whitespace THEN trim(Tail(text))
    ELSE IF text[Len(text)] \in Whitespace THEN trim(SubSeq(text, 1, Len(text) - 1))
    ELSE text

UpperToLower ==
    [c \in {"A", "B", "C", "D", "E", "F", "X"} |->
        CASE c = "A" -> "a" [] c = "B" -> "b" [] c = "C" -> "c" [] c = "D" -> "d"
          [] c = "E" -> "e" [] c = "F" -> "f" [] c = "X" -> "x"]

\* String.prototype.toLowerCase, on the characters the inputs use
toLowerCase(text) ==
    [i \in 1 .. Len(text) |->
        IF text[i] \in DOMAIN UpperToLower THEN UpperToLower[text[i]] ELSE text[i]]

HexDigits == <<"0", "1", "2", "3", "4", "5", "6", "7", "8", "9", "a", "b", "c", "d", "e", "f">>

HexDigitSet == {HexDigits[i] : i \in 1 .. 16}

HexDigitValue(c) == (CHOOSE i \in 1 .. 16 : HexDigits[i] = c) - 1

\* BigInt('0x' + digits): digit k of n, most significant first, holds bits 4(n-k) .. 4(n-k)+3
BigIntOfHexDigits(digits) ==
    UNION {{4 * (Len(digits) - k) + b : b \in {j \in 0 .. 3 :
                (HexDigitValue(digits[k]) \div (2 ^ j)) % 2 = 1}} : k \in 1 .. Len(digits)}

normalizeHexString(value) ==
    LET text == trim(value)
    IN  IF text = << >> THEN << >>
        ELSE IF Len(text) >= 2 /\ SubSeq(toLowerCase(text), 1, 2) = <<"0", "x">>
             THEN toLowerCase(text)
             ELSE <<"0", "x">> \o toLowerCase(text)

parseHexToBigInt_EmptyDigitsAreZero(value) ==
    LET normalized == normalizeHexString(value)
        digits == SubSeq(normalized, 3, Len(normalized))
    IN  IF normalized = << >> THEN NULL
        ELSE IF ~ (/\ Len(normalized) >= 2
                   /\ SubSeq(normalized, 1, 2) = <<"0", "x">>
                   /\ \A i \in 1 .. Len(digits) : toLowerCase(digits)[i] \in HexDigitSet)
             THEN NULL
        ELSE BigIntOfHexDigits(toLowerCase(digits))

parseHexToBigInt(value) ==
    LET normalized == normalizeHexString(value)
        digits == SubSeq(normalized, 3, Len(normalized))
    IN  IF normalized = << >> THEN NULL
        ELSE IF ~ (/\ Len(normalized) >= 3
                   /\ SubSeq(normalized, 1, 2) = <<"0", "x">>
                   /\ \A i \in 1 .. Len(digits) : toLowerCase(digits)[i] \in HexDigitSet)
             THEN NULL
        ELSE BigIntOfHexDigits(toLowerCase(digits))

\* value of hex digit n (0 is the least significant) of v
Nibble(v, n) ==
    (IF 4 * n \in v THEN 1 ELSE 0) + (IF 4 * n + 1 \in v THEN 2 ELSE 0)
    + (IF 4 * n + 2 \in v THEN 4 ELSE 0) + (IF 4 * n + 3 \in v THEN 8 ELSE 0)

toHex32(value) ==
    LET v == BitAnd(Nullish(value, {}), BIT_MASK_32)
    IN  <<"0", "x">> \o [i \in 1 .. 8 |-> HexDigits[1 + Nibble(v, 8 - i)]]

normalizeEncodingString(value) ==
    LET IsNotSpace(c) == c \notin Whitespace
    IN  SelectSeq(value, IsNotSpace)

-----------------------------------------------------------------------------
(* Conversion between the 32-character token and (match, mask).            *)

encodingToMatchMask_BitIsIndex(encoding) ==
    LET normalized == normalizeEncodingString(encoding)
    IN  IF normalized = << >>
        THEN [match |-> NULL, mask |-> NULL,
              error |-> <<"Provide an encoding or match/mask.">>]
        ELSE IF Len(normalized) # 32
        THEN [match |-> NULL, mask |-> NULL,
              error |-> <<"Encoding must be 32 characters (got ${normalized.length}).",
                          Len(normalized)>>]
        ELSE IF \E i \in 0 .. 31 : normalized[i + 1] \notin {"0", "1", "-"}
        THEN [match |-> NULL, mask |-> NULL,
              error |-> <<"Encoding may only contain 0, 1, and -.">>]
        ELSE [match |-> UNION {Bit(i) : i \in {j \in 0 .. 31 : normalized[j + 1] = "1"}},
              mask |-> UNION {Bit(i) : i \in {j \in 0 .. 31 : normalized[j + 1] # "-"}},
              error |-> << >>]

encodingToMatchMask_AlphabetFirst(encoding) ==
    LET normalized == normalizeEncodingString(encoding)
    IN  IF normalized = << >>
        THEN [match |-> NULL, mask |-> NULL,
              error |-> <<"Provide an encoding or match/mask.">>]
        ELSE IF \E i \in 1 .. Len(normalized) : normalized[i] \notin {"0", "1", "-"}
        THEN [match |-> NULL, mask |-> NULL,
              error |-> <<"Encoding may only contain 0, 1, and -.">>]
        ELSE IF Len(normalized) # 32
        THEN [match |-> NULL, mask |-> NULL,
              error |-> <<"Encoding must be 32 characters (got ${normalized.length}).",
                          Len(normalized)>>]
        ELSE [match |-> UNION {Bit(31 - i) : i \in {j \in 0 .. 31 : normalized[j + 1] = "1"}},
              mask |-> UNION {Bit(31 - i) : i \in {j \in 0 .. 31 : normalized[j + 1] # "-"}},
              error |-> << >>]

encodingToMatchMask_ZeroIsDontCare(encoding) ==
    LET normalized == normalizeEncodingString(encoding)
    IN  IF normalized = << >>
        THEN [match |-> NULL, mask |-> NULL,
              error |-> <<"Provide an encoding or match/mask.">>]
        ELSE IF Len(normalized) # 32
        THEN [match |-> NULL, mask |-> NULL,
              error |-> <<"Encoding must be 32 characters (got ${normalized.length}).",
                          Len(normalized)>>]
        ELSE IF \E i \in 0 .. 31 : normalized[i + 1] \notin {"0", "1", "-"}
        THEN [match |-> NULL, mask |-> NULL,
              error |-> <<"Encoding may only contain 0, 1, and -.">>]
        ELSE [match |-> UNION {Bit(31 - i) : i \in {j \in 0 .. 31 : normalized[j + 1] = "1"}},
              mask |-> UNION {Bit(31 - i) : i \in {j \in 0 .. 31 : normalized[j + 1] = "1"}},
              error |-> << >>]

\* the loop over i = 0 .. 31 ORs 1n << (31 - i) into mask for every character but
\* '-' and into match for every '1'
encodingToMatchMask(encoding) ==
    LET normalized == normalizeEncodingString(encoding)
    IN  IF normalized = << >>
        THEN [match |-> NULL, mask |-> NULL,
              error |-> <<"Provide an encoding or match/mask.">>]
        ELSE IF Len(normalized) # 32
        THEN [match |-> NULL, mask |-> NULL,
              error |-> <<"Encoding must be 32 characters (got ${normalized.length}).",
                          Len(normalized)>>]
        ELSE IF \E i \in 0 .. 31 : normalized[i + 1] \notin {"0", "1", "-"}
        THEN [match |-> NULL, mask |-> NULL,
              error |-> <<"Encoding may only contain 0, 1, and -.">>]
        ELSE [match |-> UNION {Bit(31 - i) : i \in {j \in 0 .. 31 : normalized[j + 1] = "1"}},
              mask |-> UNION {Bit(31 - i) : i \in {j \in 0 .. 31 : normalized[j + 1] # "-"}},
              error |-> << >>]

matchMaskToEncoding_MatchOnly(match, mask) ==
    LET m == BitAnd(Nullish(match, {}), BIT_MASK_32)
    IN  [n \in 1 .. 32 |-> IF (32 - n) \notin m THEN "-" ELSE "1"]

matchMaskToEncoding_LowBitFirst(match, mask) ==
    LET m == BitAnd(Nullish(match, {}), BIT_MASK_32)
        k == BitAnd(Nullish(mask, {}), BIT_MASK_32)
    IN  [n \in 1 .. 32 |->
            IF (n - 1) \notin k THEN "-"
            ELSE IF (n - 1) \notin m THEN "0" ELSE "1"]

\* the loop over bit = 31 .. 0 appends one character per bit: the character at
\* 1-based position n is the one of bit 32 - n
matchMaskToEncoding(match, mask) ==
    LET m == BitAnd(Nullish(match, {}), BIT_MASK_32)
        k == BitAnd(Nullish(mask, {}), BIT_MASK_32)
    IN  [n \in 1 .. 32 |->
            IF (32 - n) \notin k THEN "-"
            ELSE IF (32 - n) \notin m THEN "0" ELSE "1"]

-----------------------------------------------------------------------------
(* Pattern helpers.                                                        *)

patternsOverlap_CommonIsUnion(aMatch, aMask, bMatch, bMask) ==
    LET commonMask == BitAnd(BitOr(aMask, bMask), BIT_MASK_32)
        diff == BitAnd(BitAnd(BitXor(aMatch, bMatch), commonMask), BIT_MASK_32)
    IN  diff = {}

patternsOverlap_MaskOfFirst(aMatch, aMask, bMatch, bMask) ==
    LET commonMask == BitAnd(aMask, BIT_MASK_32)
        diff == BitAnd(BitAnd(BitXor(aMatch, bMatch), commonMask), BIT_MASK_32)
    IN  diff = {}

patternsOverlap(aMatch, aMask, bMatch, bMask) ==
    LET commonMask == BitAnd(BitAnd(aMask, bMask), BIT_MASK_32)
        diff == BitAnd(BitAnd(BitXor(aMatch, bMatch), commonMask), BIT_MASK_32)
    IN  diff = {}

isSubsetPattern_NoMaskTest(subsetMatch, subsetMask, supMatch, supMask) ==
    LET supMaskNorm == BitAnd(Nullish(supMask, {}), BIT_MASK_32)
        subsetMatchNorm == BitAnd(Nullish(subsetMatch, {}), BIT_MASK_32)
        supMatchNorm == BitAnd(Nullish(supMatch, {}), BIT_MASK_32)
        mismatch == BitAnd(BitXor(subsetMatchNorm, supMatchNorm), supMaskNorm)
    IN  mismatch = {}

isSubsetPattern_MaskTestReversed(subsetMatch, subsetMask, supMatch, supMask) ==
    LET subsetMaskNorm == BitAnd(Nullish(subsetMask, {}), BIT_MASK_32)
        supMaskNorm == BitAnd(Nullish(supMask, {}), BIT_MASK_32)
        subsetMatchNorm == BitAnd(Nullish(subsetMatch, {}), BIT_MASK_32)
        supMatchNorm == BitAnd(Nullish(supMatch, {}), BIT_MASK_32)
        subsetBitsNotConstrainedBySup == BitAndNot(subsetMaskNorm, supMaskNorm)
        mismatch == BitAnd(BitXor(subsetMatchNorm, supMatchNorm), supMaskNorm)
    IN  IF subsetBitsNotConstrainedBySup # {} THEN FALSE ELSE mismatch = {}

isSubsetPattern_NoMatchTest(subsetMatch, subsetMask, supMatch, supMask) ==
    LET subsetMaskNorm == BitAnd(Nullish(subsetMask, {}), BIT_MASK_32)
        supMaskNorm == BitAnd(Nullish(supMask, {}), BIT_MASK_32)
        supBitsNotConstrainedBySubset == BitAndNot(supMaskNorm, subsetMaskNorm)
    IN  supBitsNotConstrainedBySubset = {}

isSubsetPattern(subsetMatch, subsetMask, supMatch, supMask) ==
    LET subsetMaskNorm == BitAnd(Nullish(subsetMask, {}), BIT_MASK_32)
        supMaskNorm == BitAnd(Nullish(supMask, {}), BIT_MASK_32)
        subsetMatchNorm == BitAnd(Nullish(subsetMatch, {}), BIT_MASK_32)
        supMatchNorm == BitAnd(Nullish(supMatch, {}), BIT_MASK_32)
        supBitsNotConstrainedBySubset == BitAndNot(supMaskNorm, subsetMaskNorm)
        mismatch == BitAnd(BitXor(subsetMatchNorm, supMatchNorm), supMaskNorm)
    IN  IF supBitsNotConstrainedBySubset # {} THEN FALSE ELSE mismatch = {}

overlapExampleWord_ProposedOnly(aMatch, aMask, bMatch, bMask) ==
    LET am == BitAnd(Nullish(aMatch, {}), BIT_MASK_32)
        ak == BitAnd(Nullish(aMask, {}), BIT_MASK_32)
    IN  BitAnd(BitAnd(am, ak), BIT_MASK_32)

overlapExampleWord_FillOnes(aMatch, aMask, bMatch, bMask) ==
    LET am == BitAnd(Nullish(aMatch, {}), BIT_MASK_32)
        ak == BitAnd(Nullish(aMask, {}), BIT_MASK_32)
        bm == BitAnd(Nullish(bMatch, {}), BIT_MASK_32)
        bk == BitAnd(Nullish(bMask, {}), BIT_MASK_32)
    IN  BitAnd(BitOr(BitOr(BitAnd(am, ak), BitAnd(bm, BitAndNot(bk, ak))),
                     BitAndNot(BIT_MASK_32, BitOr(ak, bk))), BIT_MASK_32)

overlapExampleWord(aMatch, aMask, bMatch, bMask) ==
    LET am == BitAnd(Nullish(aMatch, {}), BIT_MASK_32)
        ak == BitAnd(Nullish(aMask, {}), BIT_MASK_32)
        bm == BitAnd(Nullish(bMatch, {}), BIT_MASK_32)
        bk == BitAnd(Nullish(bMask, {}), BIT_MASK_32)
    IN  BitAnd(BitOr(BitAnd(am, ak), BitAnd(bm, BitAndNot(bk, ak))), BIT_MASK_32)

-----------------------------------------------------------------------------
(* Classification of an overlapping pair, and one pass of the comparison   *)
(* loop of runEncoderValidation.                                           *)

conflictType_SubsetBeforeIdentical(matchNorm, maskNorm, other) ==
    IF isSubsetPattern(matchNorm, maskNorm, other.match, other.mask)
         THEN "proposed_subset_of_existing"
    ELSE IF isSubsetPattern(other.match, other.mask, matchNorm, maskNorm)
         THEN "existing_subset_of_proposed"
    ELSE IF matchNorm = other.match /\ maskNorm = other.mask THEN "identical"
    ELSE "partial_overlap"

conflictType_SubsetArgsSwapped(matchNorm, maskNorm, other) ==
    IF matchNorm = other.match /\ maskNorm = other.mask THEN "identical"
    ELSE IF isSubsetPattern(other.match, other.mask, matchNorm, maskNorm)
         THEN "proposed_subset_of_existing"
    ELSE IF isSubsetPattern(matchNorm, maskNorm, other.match, other.mask)
         THEN "existing_subset_of_proposed"
    ELSE "partial_overlap"

conflictType_NoIdentical(matchNorm, maskNorm, other) ==
    IF isSubsetPattern(matchNorm, maskNorm, other.match, other.mask)
         THEN "proposed_subset_of_existing"
    ELSE IF isSubsetPattern(other.match, other.mask, matchNorm, maskNorm)
         THEN "existing_subset_of_proposed"
    ELSE "partial_overlap"

\* the conditional expression that computes a conflict's type
conflictType(matchNorm, maskNorm, other) ==
    IF matchNorm = other.match /\ maskNorm = other.mask THEN "identical"
    ELSE IF isSubsetPattern(matchNorm, maskNorm, other.match, other.mask)
         THEN "proposed_subset_of_existing"
    ELSE IF isSubsetPattern(other.match, other.mask, matchNorm, maskNorm)
         THEN "existing_subset_of_proposed"
    ELSE "partial_overlap"

conflictWhy(type) ==
    CASE type = "identical" -> "Exact same match/mask pattern."
      [] type = "proposed_subset_of_existing" ->
            "Your proposed pattern is more specific, but every word it matches also matches the existing instruction."
      [] type = "existing_subset_of_proposed" ->
            "Your proposed pattern is more general, and it would also match words intended for the existing instruction."
      [] OTHER -> "Overlapping decode space (there exist instruction words that satisfy both patterns)."

compareWith_CommonMaskIsUnion(matchNorm, maskNorm, other) ==
    IF ~ patternsOverlap(matchNorm, maskNorm, other.match, other.mask) THEN << >>
    ELSE LET commonMask == BitAnd(BitOr(maskNorm, other.mask), BIT_MASK_32)
             type == conflictType(matchNorm, maskNorm, other)
             exampleWord == overlapExampleWord(matchNorm, maskNorm, other.match, other.mask)
         IN  <<[other |-> other,
                type |-> type,
                why |-> conflictWhy(type),
                commonMask |-> toHex32(commonMask),
                exampleWord |-> toHex32(exampleWord)]>>

\* one pass of the comparison loop: the conflict pushed for a catalog entry, if any
compareWith(matchNorm, maskNorm, other) ==
    IF ~ patternsOverlap(matchNorm, maskNorm, other.match, other.mask) THEN << >>
    ELSE LET commonMask == BitAnd(BitAnd(maskNorm, other.mask), BIT_MASK_32)
             type == conflictType(matchNorm, maskNorm, other)
             exampleWord == overlapExampleWord(matchNorm, maskNorm, other.match, other.mask)
         IN  <<[other |-> other,
                type |-> type,
                why |-> conflictWhy(type),
                commonMask |-> toHex32(commonMask),
                exampleWord |-> toHex32(exampleWord)]>>

-----------------------------------------------------------------------------
(* SpecPat: the pattern helpers applied to every pair of patterns over the *)
(* active bits (a reduced-width universe embedded in the 32-bit word).     *)

ActivePatterns == [match : ActiveValues, mask : ActiveValues]

\* null, where the value is otherwise an object
NullObject == [null |-> TRUE]

EmptyInput == [mnemonic |-> << >>, encoding |-> << >>, match |-> << >>, mask |-> << >>]

\* the validator as constructed, over an empty catalog
IdleUi ==
    /\ extensions = << >>
    /\ allInstructionPatterns = << >>
    /\ encoderValidatorOpen = FALSE
    /\ encoderValidatorInput = EmptyInput
    /\ encoderValidatorResult = NullObject
    /\ encoderValidatorCopyStatus = "null"
    /\ copiesInFlight = 0
    /\ clipboardHasReport = FALSE

IdleEncoding == encodingArg = << >> /\ encodingRet = [fn |-> "none"]

IdleHex == hexArg = << >> /\ hexRet = [fn |-> "none"]

\* the script has not run: nothing read, nothing written
IdleScript ==
    /\ instrDict = << >>
    /\ extensionInstructions = << >>
    /\ extensionsCatalog = << >>
    /\ syncRuns = 0
    /\ braceText = << >>
    /\ braceRet = [fn |-> "none"]

IdlePat ==
    /\ patA = [match |-> {}, mask |-> {}]
    /\ patB = [match |-> {}, mask |-> {}]
    /\ patRet = [fn |-> "none"]

PatInit ==
    /\ patA \in ActivePatterns
    /\ patB \in ActivePatterns
    /\ patRet = [fn |-> "none"]
    /\ IdleEncoding
    /\ IdleUi
    /\ IdleHex
    /\ IdleScript

CallPatternsOverlap ==
    /\ patRet' = [fn |-> "patternsOverlap",
                  value |-> patternsOverlap(patA.match, patA.mask, patB.match, patB.mask)]
    /\ UNCHANGED <<patA, patB, encVars, uiVars, hexVars, scriptVars>>

CallIsSubsetPattern ==
    /\ patRet' = [fn |-> "isSubsetPattern",
                  value |-> isSubsetPattern(patA.match, patA.mask, patB.match, patB.mask)]
    /\ UNCHANGED <<patA, patB, encVars, uiVars, hexVars, scriptVars>>

CallOverlapExampleWord ==
    /\ patRet' = [fn |-> "overlapExampleWord",
                  value |-> overlapExampleWord(patA.match, patA.mask, patB.match, patB.mask)]
    /\ UNCHANGED <<patA, patB, encVars, uiVars, hexVars, scriptVars>>

\* one pass of the comparison loop, with patA proposed and patB the catalog entry
CallCompareWith ==
    /\ patRet' = [fn |-> "compareWith", value |-> compareWith(patA.match, patA.mask, patB)]
    /\ UNCHANGED <<patA, patB, encVars, uiVars, hexVars, scriptVars>>

PatNext ==
    \/ CallPatternsOverlap
    \/ CallIsSubsetPattern
    \/ CallOverlapExampleWord
    \/ CallCompareWith

SpecPat == PatInit /\ [][PatNext]_vars

-----------------------------------------------------------------------------
(* Word sets, by brute force over the reduced-width words.                 *)

ReducedWords == ActiveValues

\* w satisfies (match, mask): (w & mask) == (match & mask)
Satisfies(w, p) == BitAnd(w, p.mask) = BitAnd(p.match, p.mask)

WordSet(p) == {w \in ReducedWords : Satisfies(w, p)}

\* C1: patternsOverlap(a, b) is true iff some word satisfies both a and b; in
\* particular two patterns that fix a shared bit to different values never overlap.
C1_OverlapIffCommonWord ==
    patRet.fn = "patternsOverlap" =>
        /\ patRet.value = (\E w \in ReducedWords : Satisfies(w, patA) /\ Satisfies(w, patB))
        /\ (\E bit \in BitAnd(patA.mask, patB.mask) :
                (bit \in patA.match) # (bit \in patB.match)) => patRet.value = FALSE

\* decided false: the two patterns fix bits 31 and 1 apart, and both fix bit 0, to
\* different values
C1_Witness ==
    /\ patRet.fn = "patternsOverlap"
    /\ patRet.value = FALSE
    /\ patA.mask = {0, 31} /\ patB.mask = {0, 1}
    /\ patA.match = {0} /\ patB.match = {1}

\* C6: isSubsetPattern(a, b) is true iff every word that satisfies a satisfies b.
C6_SubsetIffWordSetContained ==
    patRet.fn = "isSubsetPattern" => patRet.value = (WordSet(patA) \subseteq WordSet(patB))

\* a strict containment decided true: a fixes two bits, b only one of them
C6_Witness ==
    /\ patRet.fn = "isSubsetPattern"
    /\ patRet.value = TRUE
    /\ patA.mask = {0, 31} /\ patB.mask = {31}
    /\ WordSet(patA) # WordSet(patB)

\* C16: patternsOverlap(a, a) is true for every pattern a, and the pass of the
\* comparison loop over a catalog entry with the proposed match and mask pushes a
\* conflict with that entry of kind identical.
C16_ReflexiveIdentical ==
    patA = patB =>
        /\ patRet.fn = "patternsOverlap" => patRet.value = TRUE
        /\ patRet.fn = "compareWith" =>
            /\ Len(patRet.value) = 1
            /\ patRet.value[1].other = patB
            /\ patRet.value[1].type = "identical"

\* a pattern that fixes bits 0 and 31 compared with itself: an identical conflict
C16_Witness ==
    /\ patRet.fn = "compareWith"
    /\ patA = patB
    /\ patA.mask = {0, 31} /\ patA.match = {31}
    /\ Len(patRet.value) = 1
    /\ patRet.value[1].type = "identical"

\* C17: patternsOverlap(a, b) = patternsOverlap(b, a) for all patterns a and b.
C17_OverlapSymmetric ==
    patRet.fn = "patternsOverlap" =>
        patRet.value = patternsOverlap(patB.match, patB.mask, patA.match, patA.mask)

\* decided for two patterns with different masks that disagree on the one bit only
\* the first fixes, and agree on the shared bit
C17_Witness ==
    /\ patRet.fn = "patternsOverlap"
    /\ patRet.value = TRUE
    /\ patA.mask = {0, 31} /\ patB.mask = {0}
    /\ patA.match = {0} /\ patB.match = {0, 31}

\* C18: if isSubsetPattern(a, b) is true then patternsOverlap(a, b) is true, and the
\* pass of the comparison loop with a proposed and b existing pushes a conflict of
\* kind identical or proposed_subset_of_existing.
C18_SubsetImpliesOverlap ==
    /\ (patRet.fn = "isSubsetPattern" /\ patRet.value = TRUE)
        => patternsOverlap(patA.match, patA.mask, patB.match, patB.mask)
    /\ (/\ patRet.fn = "compareWith"
        /\ isSubsetPattern(patA.match, patA.mask, patB.match, patB.mask))
        => /\ Len(patRet.value) = 1
           /\ patRet.value[1].type \in {"identical", "proposed_subset_of_existing"}
           /\ patRet.value[1].type = "identical" <=> patA = patB

\* a pattern that fixes bits 0 and 31 classified against one that fixes bit 31 alone
C18_Witness ==
    /\ patRet.fn = "compareWith"
    /\ isSubsetPattern(patA.match, patA.mask, patB.match, patB.mask)
    /\ patA.mask = {0, 31} /\ patB.mask = {31}
    /\ Len(patRet.value) = 1
    /\ patRet.value[1].type = "proposed_subset_of_existing"

-----------------------------------------------------------------------------
(* SpecEnc: a token converted to (match, mask) and back.                   *)

TokenChars == {"0", "1", "-"}

DashToken == [n \in 1 .. 32 |-> "-"]

\* Zba SH1ADD, 0010000----------010-----0110011
SH1ADDToken ==
    <<"0", "0", "1", "0", "0", "0", "0">> \o [n \in 1 .. 10 |-> "-"]
    \o <<"0", "1", "0">> \o [n \in 1 .. 5 |-> "-"]
    \o <<"0", "1", "1", "0", "0", "1", "1">>

BaseTokens == {DashToken, SH1ADDToken}

\* the base tokens with every choice of character at the active bits' positions,
\* and the tokens that fix a single position, for each of the 32 positions
ValidTokens ==
    {[n \in 1 .. 32 |-> IF (32 - n) \in ActiveBits THEN f[32 - n] ELSE base[n]] :
        base \in BaseTokens, f \in [ActiveBits -> TokenChars]}
    \cup {[n \in 1 .. 32 |-> IF n = k THEN c ELSE "-"] : k \in 1 .. 32, c \in {"0", "1"}}

\* the texts handed to encodingToMatchMask: valid tokens, the same with white
\* space in them, too short, too long, with a foreign character, and empty
TokenInputs ==
    ValidTokens
    \cup {<<" ">> \o SubSeq(t, 1, 16) \o <<" ", "\t">> \o SubSeq(t, 17, 32) : t \in ValidTokens}
    \cup {SubSeq(t, 2, 32) : t \in ValidTokens}
    \cup {Append(t, "0") : t \in ValidTokens}
    \cup {[t EXCEPT ![32] = "x"] : t \in ValidTokens}
    \cup {[t EXCEPT ![1] = "2"] : t \in ValidTokens}
    \cup {SubSeq([t EXCEPT ![1] = "x"], 1, 31) : t \in ValidTokens}
    \cup {<< >>, <<" ">>}

EncInit ==
    /\ encodingArg \in TokenInputs
    /\ encodingRet = [fn |-> "none"]
    /\ IdlePat
    /\ IdleUi
    /\ IdleHex
    /\ IdleScript

CallEncodingToMatchMask ==
    /\ encodingRet.fn = "none"
    /\ encodingRet' = [fn |-> "encodingToMatchMask",
                       derived |-> encodingToMatchMask(encodingArg)]
    /\ UNCHANGED <<encodingArg, patVars, uiVars, hexVars, scriptVars>>

\* the token's pattern converted back
CallMatchMaskToEncoding ==
    /\ encodingRet.fn = "encodingToMatchMask"
    /\ encodingRet.derived.error = << >>
    /\ encodingRet' = [fn |-> "matchMaskToEncoding",
                       derived |-> encodingRet.derived,
                       encoding |-> matchMaskToEncoding(encodingRet.derived.match,
                                                        encodingRet.derived.mask)]
    /\ UNCHANGED <<encodingArg, patVars, uiVars, hexVars, scriptVars>>

EncNext == CallEncodingToMatchMask \/ CallMatchMaskToEncoding

SpecEnc == EncInit /\ [][EncNext]_vars

IsValidToken(t) == Len(t) = 32 /\ \A n \in 1 .. 32 : t[n] \in TokenChars

Hex(digits) == parseHexToBigInt(digits)

\* C8: for a valid 32-character token the character at string index i decides bit
\* 31 - i: '-' leaves mask and match 0, '0' sets the mask bit only, '1' sets both;
\* so match & ~mask = 0; and the SH1ADD token gives 0x20002033 / 0xfe00707f.
C8_TokenBitOrder ==
    (encodingRet.fn = "encodingToMatchMask" /\ IsValidToken(encodingArg)) =>
        LET d == encodingRet.derived
        IN  /\ d.error = << >>
            /\ d.match # NULL /\ d.mask # NULL
            /\ d.match \subseteq BIT_MASK_32 /\ d.mask \subseteq BIT_MASK_32
            /\ \A i \in 0 .. 31 :
                /\ encodingArg[i + 1] = "-" => (31 - i) \notin d.mask /\ (31 - i) \notin d.match
                /\ encodingArg[i + 1] = "0" => (31 - i) \in d.mask /\ (31 - i) \notin d.match
                /\ encodingArg[i + 1] = "1" => (31 - i) \in d.mask /\ (31 - i) \in d.match
            /\ BitAndNot(d.match, d.mask) = {}
            /\ encodingArg = SH1ADDToken =>
                /\ d.match = Hex(<<"2", "0", "0", "0", "2", "0", "3", "3">>)
                /\ d.mask = Hex(<<"f", "e", "0", "0", "7", "0", "7", "f">>)

\* the SH1ADD token has been converted
C8_Witness ==
    /\ encodingRet.fn = "encodingToMatchMask"
    /\ encodingArg = SH1ADDToken
    /\ encodingRet.derived.match = {29, 13, 5, 4, 1, 0}

\* C9: for a valid 32-character token t, matchMaskToEncoding of the (match, mask)
\* that encodingToMatchMask(t) returns is t.
C9_TokenRoundTrip ==
    (encodingRet.fn = "matchMaskToEncoding" /\ IsValidToken(encodingArg)) =>
        encodingRet.encoding = encodingArg

\* a token with all three characters, at both ends of the word, has made the round trip
C9_Witness ==
    /\ encodingRet.fn = "matchMaskToEncoding"
    /\ IsValidToken(encodingArg)
    /\ encodingArg[1] = "1" /\ encodingArg[32] = "0" /\ encodingArg[2] = "-"

\* C10 as stated: every token whose length, after white space is removed, is not
\* 32 yields the length error with that length and null match/mask; a 32-character
\* token with a foreign character yields the alphabet error; length is tested first.
C10_Original_AnyLengthIsLengthError ==
    encodingRet.fn = "encodingToMatchMask" =>
        LET n == normalizeEncodingString(encodingArg)
            d == encodingRet.derived
        IN  /\ Len(n) # 32 =>
                /\ d.error = <<"Encoding must be 32 characters (got ${normalized.length}).", Len(n)>>
                /\ d.match = NULL /\ d.mask = NULL
            /\ (Len(n) = 32 /\ \E i \in 1 .. 32 : n[i] \notin TokenChars) =>
                /\ d.error = <<"Encoding may only contain 0, 1, and -.">>
                /\ d.match = NULL /\ d.mask = NULL

\* C10 (amended): a token that is non-empty after white space is removed and whose
\* length is not 32 yields the length error carrying that length, whatever its
\* characters (the length test comes first); a 32-character token with a foreign
\* character yields the alphabet error; a token that is empty after white space is
\* removed yields the "Provide an encoding or match/mask." error instead of a
\* length error.  In all three cases match and mask are null.
C10_BadTokensRejected ==
    encodingRet.fn = "encodingToMatchMask" =>
        LET n == normalizeEncodingString(encodingArg)
            d == encodingRet.derived
        IN  /\ (n # << >> /\ Len(n) # 32) =>
                /\ d.error = <<"Encoding must be 32 characters (got ${normalized.length}).", Len(n)>>
                /\ d.match = NULL /\ d.mask = NULL
            /\ (Len(n) = 32 /\ \E i \in 1 .. 32 : n[i] \notin TokenChars) =>
                /\ d.error = <<"Encoding may only contain 0, 1, and -.">>
                /\ d.match = NULL /\ d.mask = NULL
            /\ n = << >> =>
                /\ d.error = <<"Provide an encoding or match/mask.">>
                /\ d.match = NULL /\ d.mask = NULL

\* a 31-character token that also holds a foreign character was rejected for its length
C10_Witness ==
    /\ encodingRet.fn = "encodingToMatchMask"
    /\ Len(encodingArg) = 31
    /\ encodingArg[1] \notin TokenChars
    /\ encodingRet.derived.error[2] = 31
    /\ encodingRet.derived.match = NULL

-----------------------------------------------------------------------------
(* SpecRev: a (match, mask) pair converted to a token and back.            *)

\* values wider than 32 bits: the active values with bit 32 set as well
WideValues == {v \cup {32} : v \in ActiveValues}

\* what matchMaskToEncoding may be handed for match and for mask
RevValues == ActiveValues \cup WideValues \cup {NULL}

RevInit ==
    /\ patA \in [match : RevValues, mask : RevValues]
    /\ patB = [match |-> {}, mask |-> {}]
    /\ patRet = [fn |-> "none"]
    /\ IdleEncoding
    /\ IdleUi
    /\ IdleHex
    /\ IdleScript

CallMatchMaskToEncodingOfPair ==
    /\ encodingRet.fn = "none"
    /\ encodingRet' = [fn |-> "toEncoding",
                       encoding |-> matchMaskToEncoding(patA.match, patA.mask)]
    /\ UNCHANGED <<encodingArg, patVars, uiVars, hexVars, scriptVars>>

\* the token converted back
CallEncodingToMatchMaskOfToken ==
    /\ encodingRet.fn = "toEncoding"
    /\ encodingRet' = [fn |-> "andBack",
                       encoding |-> encodingRet.encoding,
                       derived |-> encodingToMatchMask(encodingRet.encoding)]
    /\ UNCHANGED <<encodingArg, patVars, uiVars, hexVars, scriptVars>>

\* the round trip applied to its own result
CallRoundTripAgain ==
    /\ encodingRet.fn = "andBack"
    /\ encodingRet.derived.error = << >>
    /\ encodingRet' = [fn |-> "twice",
                       encoding |-> encodingRet.encoding,
                       derived |-> encodingRet.derived,
                       again |-> encodingToMatchMask(
                                     matchMaskToEncoding(encodingRet.derived.match,
                                                         encodingRet.derived.mask))]
    /\ UNCHANGED <<encodingArg, patVars, uiVars, hexVars, scriptVars>>

RevNext ==
    \/ CallMatchMaskToEncodingOfPair
    \/ CallEncodingToMatchMaskOfToken
    \/ CallRoundTripAgain

SpecRev == RevInit /\ [][RevNext]_vars

\* null read as 0
OrZero(v) == IF v = NULL THEN {} ELSE v

\* C21: for every (match, mask), null and wider than 32 bits included,
\* matchMaskToEncoding returns 32 characters over {0, 1, -}; the character at index
\* i is '-' exactly when bit 31 - i of the mask is 0 and is otherwise the value of
\* bit 31 - i of the match.
C21_MatchMaskToEncodingTotal ==
    encodingRet.fn = "toEncoding" =>
        LET t == encodingRet.encoding
            m == OrZero(patA.match)
            k == OrZero(patA.mask)
        IN  /\ Len(t) = 32
            /\ \A i \in 0 .. 31 :
                /\ t[i + 1] \in TokenChars
                /\ t[i + 1] = "-" <=> (31 - i) \notin k
                /\ (31 - i) \in k => t[i + 1] = (IF (31 - i) \in m THEN "1" ELSE "0")

\* a null match under a mask with bits 31 and 32 set: bit 31 reads '0', bit 32 is
\* dropped
C21_Witness ==
    /\ encodingRet.fn = "toEncoding"
    /\ patA.match = NULL
    /\ patA.mask = {31, 32}
    /\ encodingRet.encoding[1] = "0"
    /\ encodingRet.encoding[32] = "-"

\* C29: for every (match, mask) within 32 bits,
\* encodingToMatchMask(matchMaskToEncoding(match, mask)) is (match & mask, mask)
\* with no error; it is the original pair exactly when match & ~mask == 0; and the
\* round trip applied twice gives what it gives once.
C29_ReverseRoundTrip ==
    (/\ encodingRet.fn \in {"andBack", "twice"}
     /\ patA.match \subseteq BIT_MASK_32
     /\ patA.mask \subseteq BIT_MASK_32) =>
        LET d == encodingRet.derived
        IN  /\ d.error = << >>
            /\ d.match = patA.match \cap patA.mask
            /\ d.mask = patA.mask
            /\ (d.match = patA.match /\ d.mask = patA.mask) <=> (patA.match \ patA.mask = {})
            /\ encodingRet.fn = "twice" => encodingRet.again = d

\* the pair (0x80000001, 0x00000001) came back as (0x00000001, 0x00000001), twice
C29_Witness ==
    /\ encodingRet.fn = "twice"
    /\ patA.match = {0, 31}
    /\ patA.mask = {0}
    /\ encodingRet.derived.match = {0}
    /\ encodingRet.again.match = {0}

-----------------------------------------------------------------------------
(* SpecHex: a hex text parsed and cut to 32 bits.                          *)

\* the characters of the enumerated texts: hex digits of both cases and two that
\* are none
HexTextChars == {"0", "1", "8", "a", "F", "g", "x"}

HexTextBodies == UNION {[1 .. n -> HexTextChars] : n \in 1 .. MaxHexDigits}

\* every body bare and under both prefixes; values of 33 and 36 bits; the empty
\* text, white space, the bare prefixes, and white space around and inside a value
HexTexts ==
    {prefix \o body : prefix \in {<< >>, <<"0", "x">>, <<"0", "X">>}, body \in HexTextBodies}
    \cup {<<"1", "0", "0", "0", "0", "0", "0", "0", "1">>,
          <<"0", "x", "f", "F", "f", "f", "f", "f", "f", "f", "f">>,
          <<"0", "X", "1", "8", "0", "0", "0", "0", "0", "0", "0">>}
    \cup {<< >>, <<" ">>, <<"0", "x">>, <<"0", "X">>, <<" ", "0", "x", " ">>,
          <<" ", "0", "x", "1", "\t">>, <<"0", "x", " ", "1">>, <<"1", " ">>, <<"1", " ", "1">>}

HexInit ==
    /\ hexArg \in HexTexts
    /\ hexRet = [fn |-> "none"]
    /\ IdlePat
    /\ IdleEncoding
    /\ IdleUi
    /\ IdleScript

CallParseHexToBigInt ==
    /\ hexRet.fn = "none"
    /\ hexRet' = [fn |-> "parseHexToBigInt", value |-> parseHexToBigInt(hexArg)]
    /\ UNCHANGED <<hexArg, uiVars, patVars, encVars, scriptVars>>

\* matchParsed & BIT_MASK_32, as runEncoderValidation and the catalog builder take
\* the parsed value for a match or a mask
TruncateParsed ==
    /\ hexRet.fn = "parseHexToBigInt"
    /\ hexRet.value # NULL
    /\ hexRet' = [fn |-> "norm", value |-> hexRet.value,
                  norm |-> BitAnd(hexRet.value, BIT_MASK_32)]
    /\ UNCHANGED <<hexArg, uiVars, patVars, encVars, scriptVars>>

HexNext == CallParseHexToBigInt \/ TruncateParsed

SpecHex == HexInit /\ [][HexNext]_vars

\* the bits of a hex digit, of either case
HexCharBits ==
    [c \in {"0", "1", "2", "3", "4", "5", "6", "7", "8", "9",
            "a", "b", "c", "d", "e", "f", "A", "B", "C", "D", "E", "F"} |->
        CASE c = "0" -> {}
          [] c = "1" -> {0}
          [] c = "2" -> {1}
          [] c = "3" -> {0, 1}
          [] c = "4" -> {2}
          [] c = "5" -> {0, 2}
          [] c = "6" -> {1, 2}
          [] c = "7" -> {0, 1, 2}
          [] c = "8" -> {3}
          [] c = "9" -> {0, 3}
          [] c \in {"a", "A"} -> {1, 3}
          [] c \in {"b", "B"} -> {0, 1, 3}
          [] c \in {"c", "C"} -> {2, 3}
          [] c \in {"d", "D"} -> {0, 2, 3}
          [] c \in {"e", "E"} -> {1, 2, 3}
          [] c \in {"f", "F"} -> {0, 1, 2, 3}]

\* the text after an optional 0x or 0X
AfterPrefix(text) ==
    IF Len(text) >= 2 /\ text[1] = "0" /\ text[2] \in {"x", "X"}
    THEN SubSeq(text, 3, Len(text)) ELSE text

\* one or more hex digits
IsHexDigits(digits) ==
    digits # << >> /\ \A i \in 1 .. Len(digits) : digits[i] \in DOMAIN HexCharBits

\* the value of hex digits: digit k of n holds bits 4(n - k) .. 4(n - k) + 3
HexDigitsValue(digits) ==
    UNION {{4 * (Len(digits) - k) + b : b \in HexCharBits[digits[k]]} : k \in 1 .. Len(digits)}

\* the text between its first and its last character that is not white space
WithoutSurroundingSpace(text) ==
    LET solid == {i \in 1 .. Len(text) : text[i] \notin Whitespace}
    IN  IF solid = {} THEN << >>
        ELSE SubSeq(text, CHOOSE i \in solid : \A j \in solid : i <= j,
                          CHOOSE i \in solid : \A j \in solid : i >= j)

\* what parsing text must give, and what is then used as a match or mask
ParsesAs(text) ==
    LET digits == AfterPrefix(text)
    IN  /\ hexRet.fn = "parseHexToBigInt" =>
            hexRet.value = (IF IsHexDigits(digits) THEN HexDigitsValue(digits) ELSE NULL)
        /\ hexRet.fn = "norm" =>
            /\ IsHexDigits(digits)
            /\ hexRet.value = HexDigitsValue(digits)
            /\ hexRet.norm = {b \in HexDigitsValue(digits) : b < 32}

\* C22 as stated: an optional 0x or 0X followed by one or more hex digits parses to
\* its value, used modulo 2^32 as a match or mask; the empty text, a bare prefix and
\* text with any character that is no hex digit give null.
C22_Original_AnyNonHexIsNull == ParsesAs(hexArg)

\* C22, amended: the same of the text with the white space around it removed; white
\* space inside the text is a character that is no hex digit.
C22_HexParsing == ParsesAs(WithoutSurroundingSpace(hexArg))

\* 0xfFfffffff, a value of 36 bits in both cases of digit, was parsed and cut to
\* 0xffffffff
C22_Witness ==
    /\ hexRet.fn = "norm"
    /\ hexArg = <<"0", "x", "f", "F", "f", "f", "f", "f", "f", "f", "f">>
    /\ hexRet.value = 0 .. 35
    /\ hexRet.norm = 0 .. 31

-----------------------------------------------------------------------------
(* The catalog: allInstructionPatterns, built once from the imported data. *)
(* extensions is the flattened list Object.values(extensions).flat(); each *)
(* entry has an id and its instructions as the list of Object.entries, a   *)
(* (mnemonic, details) pair each.  A missing field of details is ''.       *)

RECURSIVE Flatten(_)
Flatten(seqs) == IF seqs = << >> THEN << >> ELSE Head(seqs) \o Flatten(Tail(seqs))

instructionPattern_DerivesMissingOnly(ext, mnemonic, details) ==
    LET encoding == normalizeEncodingString(details.encoding)
        matchParsed == parseHexToBigInt(details.match)
        maskParsed == parseHexToBigInt(details.mask)
        derived == encodingToMatchMask(encoding)
        match == IF matchParsed = NULL /\ encoding # << >> THEN derived.match ELSE matchParsed
        mask == IF maskParsed = NULL /\ encoding # << >> THEN derived.mask ELSE maskParsed
    IN  IF match = NULL \/ mask = NULL THEN << >>
        ELSE <<[extId |-> ext.id,
                mnemonic |-> mnemonic,
                encoding |-> IF encoding # << >> THEN encoding
                             ELSE matchMaskToEncoding(match, mask),
                match |-> BitAnd(match, BIT_MASK_32),
                mask |-> BitAnd(mask, BIT_MASK_32)]>>

\* one pass of the inner loop: the pattern pushed for an instruction, if any
instructionPattern(ext, mnemonic, details) ==
    LET encoding == normalizeEncodingString(details.encoding)
        matchParsed == parseHexToBigInt(details.match)
        maskParsed == parseHexToBigInt(details.mask)
        useDerived == (matchParsed = NULL \/ maskParsed = NULL) /\ encoding # << >>
        derived == encodingToMatchMask(encoding)
        match == IF useDerived THEN derived.match ELSE matchParsed
        mask == IF useDerived THEN derived.mask ELSE maskParsed
    IN  IF match = NULL \/ mask = NULL THEN << >>
        ELSE <<[extId |-> ext.id,
                mnemonic |-> mnemonic,
                encoding |-> IF encoding # << >> THEN encoding
                             ELSE matchMaskToEncoding(match, mask),
                match |-> BitAnd(match, BIT_MASK_32),
                mask |-> BitAnd(mask, BIT_MASK_32)]>>

buildAllInstructionPatterns(allExts) ==
    Flatten([e \in 1 .. Len(allExts) |->
        Flatten([n \in 1 .. Len(allExts[e].instructions) |->
            instructionPattern(allExts[e],
                               allExts[e].instructions[n].mnemonic,
                               allExts[e].instructions[n].details)])])

-----------------------------------------------------------------------------
(* runEncoderValidation.                                                   *)

conflictOrder(type) ==
    CASE type = "identical" -> 0
      [] type = "proposed_subset_of_existing" -> 1
      [] type = "existing_subset_of_proposed" -> 2
      [] type = "partial_overlap" -> 3
      [] OTHER -> 99

\* Array.prototype.sort with the comparator order[a.type] - order[b.type]: a stable
\* sort, so an element goes after every element already placed that does not
\* compare greater
RECURSIVE insertSorted(_, _)
insertSorted(x, sorted) ==
    IF sorted = << >> THEN <<x>>
    ELSE IF conflictOrder(Head(sorted).type) - conflictOrder(x.type) <= 0
         THEN <<Head(sorted)>> \o insertSorted(x, Tail(sorted))
         ELSE <<x>> \o sorted

RECURSIVE sortFrom(_, _)
sortFrom(rest, sorted) ==
    IF rest = << >> THEN sorted ELSE sortFrom(Tail(rest), insertSorted(Head(rest), sorted))

RECURSIVE Reverse(_)
Reverse(seq) == IF seq = << >> THEN << >> ELSE Append(Reverse(Tail(seq)), Head(seq))

sortConflicts_TiesReversed(conflicts) == sortFrom(Reverse(conflicts), << >>)

sortConflicts(conflicts) == sortFrom(conflicts, << >>)

matchOutsideMask_MaskOutsideMatch(matchNorm, maskNorm) == BitAndNot(maskNorm, matchNorm) # {}

\* (matchNorm & ~maskNorm) !== 0n
matchOutsideMask(matchNorm, maskNorm) == BitAndNot(matchNorm, maskNorm) # {}

derivedDiffers_MaskOnly(derivedMatchNorm, derivedMaskNorm, matchNorm, maskNorm) ==
    derivedMaskNorm # maskNorm

\* derivedMatchNorm !== matchNorm || derivedMaskNorm !== maskNorm
derivedDiffers(derivedMatchNorm, derivedMaskNorm, matchNorm, maskNorm) ==
    derivedMatchNorm # matchNorm \/ derivedMaskNorm # maskNorm

takesSupplied_SuppliedWins(bothParsed, hasEncoding) == bothParsed

\* the parsed match and mask become the proposed pattern: both parsed, and
\* !hasEncoding
takesSupplied(bothParsed, hasEncoding) == bothParsed /\ ~ hasEncoding

\* the result runEncoderValidation stores for an input and a catalog
validationResult(input, patterns) ==
    LET proposedMnemonic == trim(input.mnemonic)
        proposedEncoding == normalizeEncodingString(input.encoding)
        proposedMatchInput == trim(input.match)
        proposedMaskInput == trim(input.mask)
        hasEncoding == proposedEncoding # << >>
        hasMatchMask == proposedMatchInput # << >> \/ proposedMaskInput # << >>
        errorsNone == IF ~ hasEncoding /\ ~ hasMatchMask
                      THEN <<<<"Provide either Encoding, or both Match and Mask.">>>>
                      ELSE << >>
        derived == encodingToMatchMask(proposedEncoding)
        errorsEncoding == IF hasEncoding /\ derived.error # << >> THEN <<derived.error>>
                          ELSE << >>
        derivedMatch == IF hasEncoding THEN derived.match ELSE NULL
        derivedMask == IF hasEncoding THEN derived.mask ELSE NULL
        matchParsed == parseHexToBigInt(proposedMatchInput)
        maskParsed == parseHexToBigInt(proposedMaskInput)
        errorsParse ==
            (IF hasMatchMask /\ matchParsed = NULL
             THEN <<<<"Match must be a hex value like 0x1234.">>>> ELSE << >>)
            \o (IF hasMatchMask /\ maskParsed = NULL
                THEN <<<<"Mask must be a hex value like 0x707f.">>>> ELSE << >>)
        bothParsed == hasMatchMask /\ matchParsed # NULL /\ maskParsed # NULL
        suppliedMatchNorm == BitAnd(matchParsed, BIT_MASK_32)
        suppliedMaskNorm == BitAnd(maskParsed, BIT_MASK_32)
        errorsIllegal ==
            IF bothParsed /\ matchOutsideMask(suppliedMatchNorm, suppliedMaskNorm)
            THEN <<<<"Match contains bits outside Mask (match & ~mask must be 0).">>>>
            ELSE << >>
        errorsConsistency ==
            IF /\ bothParsed /\ hasEncoding
               /\ derivedMatch # NULL /\ derivedMask # NULL
               /\ derivedDiffers(BitAnd(derivedMatch, BIT_MASK_32),
                                  BitAnd(derivedMask, BIT_MASK_32),
                                  suppliedMatchNorm, suppliedMaskNorm)
            THEN <<<<"Encoding does not match the provided Match/Mask.">>>>
            ELSE << >>
        errors == errorsNone \o errorsEncoding \o errorsParse \o errorsIllegal
                  \o errorsConsistency
        fromSupplied == takesSupplied(bothParsed, hasEncoding)
        proposedMatch == IF fromSupplied THEN suppliedMatchNorm ELSE derivedMatch
        proposedMask == IF fromSupplied THEN suppliedMaskNorm ELSE derivedMask
        normalizedEncoding ==
            IF fromSupplied THEN matchMaskToEncoding(suppliedMatchNorm, suppliedMaskNorm)
            ELSE IF hasEncoding THEN proposedEncoding ELSE << >>
        matchNorm == BitAnd(Nullish(proposedMatch, {}), BIT_MASK_32)
        maskNorm == BitAnd(Nullish(proposedMask, {}), BIT_MASK_32)
        proposed ==
            [mnemonic |-> proposedMnemonic,
             encoding |-> IF normalizeEncodingString(normalizedEncoding) # << >>
                          THEN normalizeEncodingString(normalizedEncoding)
                          ELSE matchMaskToEncoding(matchNorm, maskNorm),
             match |-> toHex32(matchNorm),
             mask |-> toHex32(maskNorm),
             matchValue |-> matchNorm,
             maskValue |-> maskNorm]
        conflicts == Flatten([n \in 1 .. Len(patterns) |->
                                 compareWith(matchNorm, maskNorm, patterns[n])])
    IN  IF proposedMatch = NULL \/ proposedMask = NULL
        THEN [errors |-> errors, proposed |-> NullObject, conflicts |-> << >>]
        ELSE [errors |-> errors, proposed |-> proposed, conflicts |-> sortConflicts(conflicts)]

runEncoderValidation_ReversesCatalog ==
    /\ encoderValidatorOpen
    /\ encoderValidatorResult' = validationResult(encoderValidatorInput, allInstructionPatterns)
    /\ allInstructionPatterns' = Reverse(allInstructionPatterns)
    /\ UNCHANGED <<extensions, encoderValidatorOpen,
                   encoderValidatorInput, encoderValidatorCopyStatus, copiesInFlight,
                   clipboardHasReport, patVars, encVars, hexVars, scriptVars>>

\* the Validate button
runEncoderValidation ==
    /\ encoderValidatorOpen
    /\ encoderValidatorResult' = validationResult(encoderValidatorInput, allInstructionPatterns)
    /\ UNCHANGED <<extensions, allInstructionPatterns, encoderValidatorOpen,
                   encoderValidatorInput, encoderValidatorCopyStatus, copiesInFlight,
                   clipboardHasReport, patVars, encVars, hexVars, scriptVars>>

-----------------------------------------------------------------------------
(* SpecRun: one validation run, for every enumerated input and catalog.    *)

InputBits == {ActiveBit(i) : i \in 1 .. NumInputBits}

\* the token with the given characters at bits 31 and 0 and '-' elsewhere
EndsToken(c31, c0) == [n \in 1 .. 32 |-> IF n = 1 THEN c31 ELSE IF n = 32 THEN c0 ELSE "-"]

\* texts typed into Match and Mask: every value over the input bits, nothing, text
\* that is no hex, and a value wider than 32 bits with an upper-case prefix, in
\* white space (0X100000001)
HexInputs ==
    {toHex32(v) : v \in SUBSET InputBits}
    \cup {<< >>, <<"z">>,
          <<" ", "0", "X", "1", "0", "0", "0", "0", "0", "0", "0", "1", " ">>}

\* texts typed into Encoding: nothing, valid tokens (one with white space in it)
\* and a token of 31 characters
EncodingInputs ==
    {<< >>,
     EndsToken("-", "1"),
     <<" ">> \o EndsToken("1", "0") \o <<" ">>,
     SubSeq(EndsToken("1", "1"), 1, 31)}

RunInputs ==
    [mnemonic : {<<" ", "M", "Y", "O", "P">>},
     encoding : EncodingInputs,
     match : HexInputs,
     mask : HexInputs]

\* instruction details as they may stand in the catalog data: an encoding beside a
\* mask without a match, a match/mask only, a match/mask beside an encoding that
\* says otherwise, neither usable, and a match with a bit outside its mask
DetailsList ==
    <<[encoding |-> EndsToken("-", "1"), match |-> << >>,
       mask |-> <<"0", "x", "8", "0", "0", "0", "0", "0", "0", "1">>],
      [encoding |-> << >>,
       match |-> <<"0", "x", "8", "0", "0", "0", "0", "0", "0", "1">>,
       mask |-> <<"0", "x", "8", "0", "0", "0", "0", "0", "0", "1">>],
      [encoding |-> EndsToken("1", "-"),
       match |-> <<"0">>,
       mask |-> <<"8", "0", "0", "0", "0", "0", "0", "0">>],
      [encoding |-> SubSeq(EndsToken("1", "1"), 1, 31), match |-> << >>, mask |-> <<"0", "x", "1">>],
      [encoding |-> << >>,
       match |-> <<"0", "x", "8", "0", "0", "0", "0", "0", "0", "1">>,
       mask |-> <<"0", "x", "1">>]>>

DetailsPool == {DetailsList[i] : i \in 1 .. Len(DetailsList)}

\* instruction n of the data, under a mnemonic of its own
Instruction(n, details) == [mnemonic |-> <<"I", n>>, details |-> details]

\* the instructions spread over two extensions: the first holds only the first
\* instruction, the second the others
CatalogOf(detailsSeq) ==
    LET ins == [n \in 1 .. Len(detailsSeq) |-> Instruction(n, detailsSeq[n])]
    IN  <<[id |-> "ExtA", instructions |-> IF Len(ins) = 0 THEN << >> ELSE <<ins[1]>>],
          [id |-> "ExtB", instructions |-> IF Len(ins) <= 1 THEN << >>
                                           ELSE SubSeq(ins, 2, Len(ins))]>>

\* the lists of n details that are all different, in every order, and the lists
\* that hold one details n times (one pattern under n mnemonics)
DetailsLists(n) ==
    {d \in [1 .. n -> DetailsPool] :
        \/ \A i, j \in 1 .. n : i # j => d[i] # d[j]
        \/ \A i, j \in 1 .. n : d[i] = d[j]}

CatalogData == {CatalogOf(d) : d \in UNION {DetailsLists(n) : n \in 0 .. MaxInstructions}}

RunInit ==
    /\ extensions \in CatalogData
    /\ allInstructionPatterns = buildAllInstructionPatterns(extensions)
    /\ encoderValidatorOpen = TRUE
    /\ encoderValidatorInput \in RunInputs
    /\ encoderValidatorResult = NullObject
    /\ encoderValidatorCopyStatus = "null"
    /\ copiesInFlight = 0
    /\ clipboardHasReport = FALSE
    /\ IdlePat
    /\ IdleEncoding
    /\ IdleHex
    /\ IdleScript

RunNext == runEncoderValidation

SpecRun == RunInit /\ [][RunNext]_vars

-----------------------------------------------------------------------------
(* Spec: the Encoder Validator modal, from the state React constructs.     *)

\* texts typed into the fields of the modal
UiMnemonicTexts == {<< >>, <<"M", "Y", "O", "P">>}

UiEncodingTexts == {<< >>, EndsToken("-", "1"), SubSeq(EndsToken("1", "1"), 1, 31)}

UiHexTexts == {<< >>, <<"0", "x", "1">>, <<"0", "x", "8", "0", "0", "0", "0", "0", "0", "1">>}

\* the catalog data of the modal's runs: one instruction of each kind of details,
\* in two orders
UiCatalogData == {CatalogOf(DetailsList), CatalogOf(Reverse(DetailsList))}

Init ==
    /\ extensions \in UiCatalogData
    /\ allInstructionPatterns = buildAllInstructionPatterns(extensions)
    /\ encoderValidatorOpen = FALSE
    /\ encoderValidatorInput = EmptyInput
    /\ encoderValidatorResult = NullObject
    /\ encoderValidatorCopyStatus = "null"
    /\ copiesInFlight = 0
    /\ clipboardHasReport = FALSE
    /\ IdlePat
    /\ IdleEncoding
    /\ IdleHex
    /\ IdleScript

\* the Encoder Validator button of the header
openEncoderValidator ==
    /\ encoderValidatorOpen' = TRUE
    /\ encoderValidatorResult' = NullObject
    /\ encoderValidatorCopyStatus' = "null"
    /\ UNCHANGED <<extensions, allInstructionPatterns, encoderValidatorInput, copiesInFlight,
                   clipboardHasReport, patVars, encVars, hexVars, scriptVars>>

\* the Close button and the backdrop
closeEncoderValidator ==
    /\ encoderValidatorOpen
    /\ encoderValidatorOpen' = FALSE
    /\ UNCHANGED <<extensions, allInstructionPatterns, encoderValidatorInput,
                   encoderValidatorResult, encoderValidatorCopyStatus, copiesInFlight,
                   clipboardHasReport, patVars, encVars, hexVars, scriptVars>>

\* onChange of one of the four text fields
editInput(field, value) ==
    /\ encoderValidatorOpen
    /\ encoderValidatorInput' = [encoderValidatorInput EXCEPT ![field] = value]
    /\ UNCHANGED <<extensions, allInstructionPatterns, encoderValidatorOpen,
                   encoderValidatorResult, encoderValidatorCopyStatus, copiesInFlight,
                   clipboardHasReport, patVars, encVars, hexVars, scriptVars>>

editMnemonic == \E value \in UiMnemonicTexts : editInput("mnemonic", value)

editEncoding == \E value \in UiEncodingTexts : editInput("encoding", value)

editMatch == \E value \in UiHexTexts : editInput("match", value)

editMask == \E value \in UiHexTexts : editInput("mask", value)

resetEncoderValidator_EmptyResult ==
    /\ encoderValidatorOpen
    /\ encoderValidatorInput' = EmptyInput
    /\ encoderValidatorResult' = [errors |-> << >>, proposed |-> NullObject, conflicts |-> << >>]
    /\ encoderValidatorCopyStatus' = "null"
    /\ UNCHANGED <<extensions, allInstructionPatterns, encoderValidatorOpen, copiesInFlight,
                   clipboardHasReport, patVars, encVars, hexVars, scriptVars>>

\* the Reset button
resetEncoderValidator ==
    /\ encoderValidatorOpen
    /\ encoderValidatorInput' = EmptyInput
    /\ encoderValidatorResult' = NullObject
    /\ encoderValidatorCopyStatus' = "null"
    /\ UNCHANGED <<extensions, allInstructionPatterns, encoderValidatorOpen, copiesInFlight,
                   clipboardHasReport, patVars, encVars, hexVars, scriptVars>>

\* the Copy report button, up to the await of the clipboard write
copyReportClick ==
    /\ encoderValidatorOpen
    /\ encoderValidatorResult # NullObject
    /\ encoderValidatorResult.proposed # NullObject
    /\ copiesInFlight < MaxCopiesInFlight
    /\ copiesInFlight' = copiesInFlight + 1
    /\ UNCHANGED <<extensions, allInstructionPatterns, encoderValidatorOpen,
                   encoderValidatorInput, encoderValidatorResult, encoderValidatorCopyStatus,
                   clipboardHasReport, patVars, encVars, hexVars, scriptVars>>

\* the rest of the Copy report handler, once copyTextToClipboard has settled: ok
\* when the report was written
copyReportSettled ==
    /\ copiesInFlight > 0
    /\ copiesInFlight' = copiesInFlight - 1
    /\ \E ok \in BOOLEAN :
        /\ clipboardHasReport' = (ok \/ clipboardHasReport)
        /\ encoderValidatorCopyStatus' = IF ok THEN "copied" ELSE "failed"
    /\ UNCHANGED <<extensions, allInstructionPatterns, encoderValidatorOpen,
                   encoderValidatorInput, encoderValidatorResult, patVars, encVars, hexVars, scriptVars>>

\* the 1500 ms timer a settled copy has set: one is pending whenever the status
\* is not null
copyStatusTimeout ==
    /\ encoderValidatorCopyStatus # "null"
    /\ encoderValidatorCopyStatus' = "null"
    /\ UNCHANGED <<extensions, allInstructionPatterns, encoderValidatorOpen,
                   encoderValidatorInput, encoderValidatorResult, copiesInFlight,
                   clipboardHasReport, patVars, encVars, hexVars, scriptVars>>

Next ==
    \/ openEncoderValidator
    \/ closeEncoderValidator
    \/ editMnemonic
    \/ editEncoding
    \/ editMatch
    \/ editMask
    \/ runEncoderValidation
    \/ resetEncoderValidator
    \/ copyReportClick
    \/ copyReportSettled
    \/ copyStatusTimeout

Spec == Init /\ [][Next]_vars

-----------------------------------------------------------------------------
(* Claims about a validation run.                                          *)

result == encoderValidatorResult

\* a run has stored a result that carries a proposed pattern
Compared == result # NullObject /\ result.proposed # NullObject

ProposedPattern == [match |-> result.proposed.matchValue, mask |-> result.proposed.maskValue]

EntryPattern(other) == [match |-> other.match, mask |-> other.mask]

\* some word satisfies both patterns
ShareWord(p, q) == \E w \in ReducedWords : Satisfies(w, p) /\ Satisfies(w, q)

ConflictsWith(n) ==
    {k \in 1 .. Len(result.conflicts) : result.conflicts[k].other = allInstructionPatterns[n]}

\* the part of C2 about the conflicts alone: the conflict list holds one conflict for
\* each catalog entry that shares a word with the proposed pattern and none for any
\* other entry
C2_ExactlyOverlappingEntries ==
    Compared =>
        /\ \A n \in 1 .. Len(allInstructionPatterns) :
            Cardinality(ConflictsWith(n)) =
                IF ShareWord(ProposedPattern, EntryPattern(allInstructionPatterns[n]))
                THEN 1 ELSE 0
        /\ \A k \in 1 .. Len(result.conflicts) :
            \E n \in 1 .. Len(allInstructionPatterns) : k \in ConflictsWith(n)

\* C2: the conflict list holds exactly one conflict for each catalog entry whose
\* pattern overlaps the proposed pattern and none for any other; and a run in which
\* no entry overlaps yields an empty conflict list, a proposed pattern and no error.
C2_ConflictsExactAndNoError ==
    Compared =>
        /\ C2_ExactlyOverlappingEntries
        /\ (\A n \in 1 .. Len(allInstructionPatterns) :
                ~ ShareWord(ProposedPattern, EntryPattern(allInstructionPatterns[n])))
            => (result.conflicts = << >> /\ result.errors = << >>)

\* C3: the example word of every reported conflict satisfies the proposed pattern
\* and the existing one.
C3_ExampleWordSatisfiesBoth ==
    Compared =>
        \A k \in 1 .. Len(result.conflicts) :
            LET c == result.conflicts[k]
                w == parseHexToBigInt(c.exampleWord)
            IN  /\ w # NULL
                /\ Satisfies(w, ProposedPattern)
                /\ Satisfies(w, EntryPattern(c.other))

\* a conflict whose example word takes bit 0 from the proposed pattern and bit 31
\* from the existing one
C3_Witness ==
    /\ Compared
    /\ \E k \in 1 .. Len(result.conflicts) :
        /\ result.proposed.maskValue = {0} /\ result.proposed.matchValue = {0}
        /\ result.conflicts[k].other.mask = {0, 31}
        /\ result.conflicts[k].exampleWord = <<"0", "x", "8", "0", "0", "0", "0", "0", "0", "1">>

ConflictKinds ==
    {"identical", "proposed_subset_of_existing", "existing_subset_of_proposed", "partial_overlap"}

\* C4: every reported conflict has exactly one of the four kinds, the first in the
\* order identical, proposed_subset_of_existing, existing_subset_of_proposed,
\* partial_overlap whose condition holds, and its pair overlaps.
C4_KindIsFirstThatHolds ==
    Compared =>
        \A k \in 1 .. Len(result.conflicts) :
            LET c == result.conflicts[k]
                p == ProposedPattern
                e == EntryPattern(c.other)
                same == p.match = e.match /\ p.mask = e.mask
                pInE == isSubsetPattern(p.match, p.mask, e.match, e.mask)
                eInP == isSubsetPattern(e.match, e.mask, p.match, p.mask)
            IN  /\ c.type \in ConflictKinds
                /\ c.type = "identical" <=> same
                /\ c.type = "proposed_subset_of_existing" <=> (~ same /\ pInE)
                /\ c.type = "existing_subset_of_proposed" <=> (~ same /\ ~ pInE /\ eInP)
                /\ c.type = "partial_overlap" <=> (~ same /\ ~ pInE /\ ~ eInP)
                /\ patternsOverlap(p.match, p.mask, e.match, e.mask)
                /\ ShareWord(p, e)

\* one run has reported conflicts of three different kinds
C4_Witness ==
    /\ Compared
    /\ \E i, j, k \in 1 .. Len(result.conflicts) :
        /\ result.conflicts[i].type = "identical"
        /\ result.conflicts[j].type = "existing_subset_of_proposed"
        /\ result.conflicts[k].type = "partial_overlap"

\* C5: the kind of a reported conflict agrees with the word sets.
C5_KindMatchesWordSets ==
    Compared =>
        \A k \in 1 .. Len(result.conflicts) :
            LET c == result.conflicts[k]
                P == WordSet(ProposedPattern)
                E == WordSet(EntryPattern(c.other))
            IN  /\ c.type = "proposed_subset_of_existing" => P \subseteq E
                /\ c.type = "existing_subset_of_proposed" => E \subseteq P
                /\ c.type = "partial_overlap" =>
                    (P \cap E # {} /\ ~ (P \subseteq E) /\ ~ (E \subseteq P))
                /\ c.type = "identical" => P = E

\* one run has reported an existing_subset_of_proposed conflict whose word sets
\* differ and a partial_overlap conflict
C5_Witness ==
    /\ Compared
    /\ \E i, j \in 1 .. Len(result.conflicts) :
        /\ result.conflicts[i].type = "existing_subset_of_proposed"
        /\ WordSet(ProposedPattern) # WordSet(EntryPattern(result.conflicts[i].other))
        /\ result.conflicts[j].type = "partial_overlap"

\* the priority of a kind in the report
KindPriority(type) ==
    CASE type = "identical" -> 0
      [] type = "proposed_subset_of_existing" -> 1
      [] type = "existing_subset_of_proposed" -> 2
      [] type = "partial_overlap" -> 3

\* the place in the catalog of the entry a conflict is about
CatalogIndex(c) == CHOOSE n \in 1 .. Len(allInstructionPatterns) : allInstructionPatterns[n] = c.other

\* C7: conflicts appear in non-decreasing kind priority, and two conflicts of the
\* same kind appear in the order of their entries in the catalog.
C7_SortedByKindStable ==
    Compared =>
        \A i, j \in 1 .. Len(result.conflicts) :
            i < j =>
                LET a == result.conflicts[i]
                    b == result.conflicts[j]
                IN  /\ KindPriority(a.type) <= KindPriority(b.type)
                    /\ KindPriority(a.type) = KindPriority(b.type)
                        => CatalogIndex(a) < CatalogIndex(b)

\* a run whose sort moved the third catalog entry in front of two of one kind
C7_Witness ==
    /\ Compared
    /\ Len(result.conflicts) = 3
    /\ CatalogIndex(result.conflicts[1]) = 3
    /\ CatalogIndex(result.conflicts[2]) = 1
    /\ CatalogIndex(result.conflicts[3]) = 2
    /\ result.conflicts[2].type = result.conflicts[3].type

-----------------------------------------------------------------------------
(* Claims about the errors of a validation run.                            *)

\* a run has stored a result
Ran == result # NullObject

\* what the run read from the fields
InputEncoding == normalizeEncodingString(encoderValidatorInput.encoding)

SuppliedMatch == parseHexToBigInt(trim(encoderValidatorInput.match))

SuppliedMask == parseHexToBigInt(trim(encoderValidatorInput.mask))

BothSupplied == SuppliedMatch # NULL /\ SuppliedMask # NULL

\* the low 32 bits of a value
Truncated(v) == {bit \in v : bit < 32}

\* the bits a token sets in match and in mask, by position
TokenMatchBits(t) == {32 - n : n \in {m \in 1 .. Len(t) : t[m] = "1"}}

TokenMaskBits(t) == {32 - n : n \in {m \in 1 .. Len(t) : t[m] \in {"0", "1"}}}

IllegalMatchMessage == <<"Match contains bits outside Mask (match & ~mask must be 0).">>

ConsistencyMessage == <<"Encoding does not match the provided Match/Mask.">>

HasError(message) == \E k \in 1 .. Len(result.errors) : result.errors[k] = message

\* C11: when match and mask are supplied in hex and the match, truncated to 32 bits,
\* has a bit set outside the truncated mask, the run reports the illegal-match error.
C11_IllegalMatchReported ==
    (Ran /\ BothSupplied /\ Truncated(SuppliedMatch) \ Truncated(SuppliedMask) # {})
        => HasError(IllegalMatchMessage)

\* a run on match 0x80000001 and mask 0x00000001, bit 31 of the match outside the
\* mask, that reported the error
C11_Witness ==
    /\ Ran
    /\ BothSupplied
    /\ Truncated(SuppliedMatch) = {0, 31}
    /\ Truncated(SuppliedMask) = {0}
    /\ HasError(IllegalMatchMessage)

\* C12: when a valid token and a parseable match and mask are supplied, the run
\* reports the consistency error iff the token's (match, mask) differs from the
\* supplied pair truncated to 32 bits; a disagreeing pair never passes without an
\* error.
C12_ConsistencyIffDisagree ==
    (Ran /\ IsValidToken(InputEncoding) /\ BothSupplied) =>
        LET disagree == \/ TokenMatchBits(InputEncoding) # Truncated(SuppliedMatch)
                        \/ TokenMaskBits(InputEncoding) # Truncated(SuppliedMask)
        IN  /\ HasError(ConsistencyMessage) <=> disagree
            /\ disagree => result.errors # << >>

\* a run on a token that fixes bit 0 alone and a supplied mask that fixes bit 31 as
\* well, a legal pair, which reported the consistency error and no other
C12_Witness ==
    /\ Ran
    /\ IsValidToken(InputEncoding)
    /\ BothSupplied
    /\ TokenMaskBits(InputEncoding) = {0}
    /\ Truncated(SuppliedMask) = {0, 31}
    /\ Truncated(SuppliedMatch) = {0}
    /\ result.errors = <<ConsistencyMessage>>

\* C13: whenever a run reports at least one error, its result carries no proposed
\* pattern and an empty conflict list.
C13_NoPatternOnError ==
    (Ran /\ result.errors # << >>) =>
        (result.proposed = NullObject /\ result.conflicts = << >>)

\* C14: the proposed pattern of every run that reaches the comparison loop, and
\* every entry of the built catalog, satisfies match & ~mask == 0.
C14_PatternInvariant ==
    /\ Compared => result.proposed.matchValue \ result.proposed.maskValue = {}
    /\ \A n \in 1 .. Len(allInstructionPatterns) :
        allInstructionPatterns[n].match \ allInstructionPatterns[n].mask = {}

-----------------------------------------------------------------------------
(* Claims about the conflicts of a validation run.                         *)

\* the proposed pattern fixes every bit the entry fixes and more, with the entry's
\* values at the entry's bits
ProposedFixesMore(other) ==
    /\ other.mask \subseteq result.proposed.maskValue
    /\ other.mask # result.proposed.maskValue
    /\ BitAnd(BitXor(result.proposed.matchValue, other.match), other.mask) = {}

\* the run reported one conflict with catalog entry n, of the given kind
ReportedAs(n, kind) ==
    /\ Cardinality(ConflictsWith(n)) = 1
    /\ \A k \in ConflictsWith(n) : result.conflicts[k].type = kind

\* C15 as stated: when the proposed mask is a strict superset of an entry's fixed
\* bits and the proposed match agrees with the entry's at those bits, the conflict
\* reported for the entry has kind existing_subset_of_proposed.
C15_Original_ExistingSubsetOfProposed ==
    Compared =>
        \A n \in 1 .. Len(allInstructionPatterns) :
            ProposedFixesMore(allInstructionPatterns[n])
                => ReportedAs(n, "existing_subset_of_proposed")

\* C15, amended: in that case the conflict reported for the entry has kind
\* proposed_subset_of_existing (the proposed pattern is the more specific one).
C15_ProposedSubsetOfExisting ==
    Compared =>
        \A n \in 1 .. Len(allInstructionPatterns) :
            ProposedFixesMore(allInstructionPatterns[n])
                => ReportedAs(n, "proposed_subset_of_existing")

\* proposed match 0x80000001 under mask 0x80000001 against an entry that fixes bit 0
\* alone, to 1
C15_Witness ==
    /\ Compared
    /\ result.errors = << >>
    /\ result.proposed.maskValue = {0, 31}
    /\ \E n \in 1 .. Len(allInstructionPatterns) :
        /\ allInstructionPatterns[n].mask = {0}
        /\ ProposedFixesMore(allInstructionPatterns[n])
        /\ ReportedAs(n, "proposed_subset_of_existing")

\* C19: the example word of every conflict is
\* (a.match & a.mask) | (b.match & (b.mask & ~a.mask)), a proposed and b existing,
\* as 32 bits; a bit fixed by neither pattern is 0 in it, and conflicts of one run
\* with entries of the same match and mask carry the same word.
C19_ExampleWordConstruction ==
    Compared =>
        /\ \A k \in 1 .. Len(result.conflicts) :
            LET c == result.conflicts[k]
                a == ProposedPattern
                b == EntryPattern(c.other)
                w == (a.match \cap a.mask) \cup (b.match \cap (b.mask \ a.mask))
            IN  /\ Len(c.exampleWord) = 10
                /\ parseHexToBigInt(c.exampleWord) = Truncated(w)
                /\ parseHexToBigInt(c.exampleWord) \subseteq (a.mask \cup b.mask)
        /\ \A j, k \in 1 .. Len(result.conflicts) :
            EntryPattern(result.conflicts[j].other) = EntryPattern(result.conflicts[k].other)
                => result.conflicts[j].exampleWord = result.conflicts[k].exampleWord

\* a proposed pattern that fixes nothing against the entry with match 0x80000001
\* under mask 0x00000001: the word takes bit 0 from the entry and leaves bit 31, which
\* neither fixes, 0
C19_Witness ==
    /\ Compared
    /\ result.proposed.maskValue = {}
    /\ \E k \in 1 .. Len(result.conflicts) :
        /\ result.conflicts[k].other.match = {0, 31}
        /\ result.conflicts[k].other.mask = {0}
        /\ result.conflicts[k].exampleWord = <<"0", "x", "0", "0", "0", "0", "0", "0", "0", "1">>

\* C20: the common mask of every conflict is proposed.mask & existing.mask.
C20_CommonMaskIsIntersection ==
    Compared =>
        \A k \in 1 .. Len(result.conflicts) :
            LET c == result.conflicts[k]
            IN  /\ Len(c.commonMask) = 10
                /\ parseHexToBigInt(c.commonMask) = result.proposed.maskValue \cap c.other.mask

\* a proposed pattern that fixes bits 0 and 31 against an entry that fixes bit 31
\* alone: the common mask is 0x80000000
C20_Witness ==
    /\ Compared
    /\ result.proposed.maskValue = {0, 31}
    /\ \E k \in 1 .. Len(result.conflicts) :
        /\ result.conflicts[k].other.mask = {31}
        /\ result.conflicts[k].commonMask = <<"0", "x", "8", "0", "0", "0", "0", "0", "0", "0">>

-----------------------------------------------------------------------------
(* Claims about the modal over any sequence of its operations.             *)

\* C23: over any sequence of runs, edits and resets the catalog pattern list never
\* changes, and a result a step stores is the one the input at that step and the
\* catalog built from the data determine, so two runs on the same input store the
\* same errors and conflicts.
C23_ValidationIsPure ==
    [][/\ allInstructionPatterns' = allInstructionPatterns
       /\ extensions' = extensions
       /\ (encoderValidatorResult' # encoderValidatorResult
           /\ encoderValidatorResult' # NullObject)
            => encoderValidatorResult' =
                    validationResult(encoderValidatorInput,
                                     buildAllInstructionPatterns(extensions))]_vars

\* a result with conflicts is on display, its input has since been cleared field
\* by field, and the catalog is still the one built from the data
C23_Witness ==
    /\ Compared
    /\ result.conflicts # << >>
    /\ encoderValidatorInput.encoding = << >>
    /\ encoderValidatorInput.match = << >>
    /\ encoderValidatorInput.mask = << >>
    /\ allInstructionPatterns = buildAllInstructionPatterns(extensions)
    /\ Len(allInstructionPatterns) = 4

\* C27: in every state reachable by opening, editing, Validate and Reset, a result
\* that is present has an empty conflict list and a non-empty error list if its
\* proposed pattern is null, and a non-null proposed pattern if its conflict list
\* is non-empty.
C27_ResultShape ==
    Ran =>
        /\ result.proposed = NullObject =>
            (result.conflicts = << >> /\ result.errors # << >>)
        /\ result.conflicts # << >> => result.proposed # NullObject

\* a run on a token of 31 characters beside a valid match and mask stored a result
\* without a proposed pattern
C27_Witness ==
    /\ Ran
    /\ result.proposed = NullObject
    /\ result.errors # << >>
    /\ Len(encoderValidatorInput.encoding) = 31
    /\ encoderValidatorInput.match = <<"0", "x", "1">>
    /\ encoderValidatorInput.mask = <<"0", "x", "1">>

-----------------------------------------------------------------------------
(* Claims about the sources of a pattern.                                  *)

\* C24: for the two patterns of a reported conflict the subset test holds in both
\* directions only when they have equal match and equal mask, and a pair whose word
\* sets are equal is classified identical.
C24_BothSubsetsOnlyIfIdentical ==
    Compared =>
        \A k \in 1 .. Len(result.conflicts) :
            LET c == result.conflicts[k]
                p == ProposedPattern
                e == EntryPattern(c.other)
            IN  /\ (/\ isSubsetPattern(p.match, p.mask, e.match, e.mask)
                    /\ isSubsetPattern(e.match, e.mask, p.match, p.mask)) => p = e
                /\ WordSet(p) = WordSet(e) => c.type = "identical"

\* the value of a hex text, or null
HexValue(text) ==
    LET digits == AfterPrefix(WithoutSurroundingSpace(text))
    IN  IF IsHexDigits(digits) THEN HexDigitsValue(digits) ELSE NULL

\* the instructions of the data in iteration order
CatalogEntries ==
    Flatten([e \in 1 .. Len(extensions) |->
        [n \in 1 .. Len(extensions[e].instructions) |->
            [extId |-> extensions[e].id,
             mnemonic |-> extensions[e].instructions[n].mnemonic,
             details |-> extensions[e].instructions[n].details]]])

BothHexParse(details) == HexValue(details.match) # NULL /\ HexValue(details.mask) # NULL

Usable(entry) ==
    \/ BothHexParse(entry.details)
    \/ IsValidToken(normalizeEncodingString(entry.details.encoding))

ExpectedPattern(details) ==
    IF BothHexParse(details)
    THEN [match |-> Truncated(HexValue(details.match)),
          mask |-> Truncated(HexValue(details.mask))]
    ELSE [match |-> TokenMatchBits(normalizeEncodingString(details.encoding)),
          mask |-> TokenMaskBits(normalizeEncodingString(details.encoding))]

\* C25: the pattern list holds, in the order of the data, exactly the instructions
\* whose match and mask both parse as hex or whose encoding is a valid token; the
\* pattern is the parsed pair cut to 32 bits when both parse, whatever the encoding
\* says, and the token's pair otherwise.
C25_CatalogConstruction ==
    LET kept == SelectSeq(CatalogEntries, Usable)
    IN  /\ Len(allInstructionPatterns) = Len(kept)
        /\ \A i \in 1 .. Len(kept) :
            /\ i <= Len(allInstructionPatterns)
            /\ allInstructionPatterns[i].extId = kept[i].extId
            /\ allInstructionPatterns[i].mnemonic = kept[i].mnemonic
            /\ EntryPattern(allInstructionPatterns[i]) = ExpectedPattern(kept[i].details)

\* data of three instructions: one unusable and left out, one whose parsed pair
\* was taken against its encoding, one whose token was taken against its mask
C25_Witness ==
    /\ Ran
    /\ Len(CatalogEntries) = 3
    /\ Len(allInstructionPatterns) = 2
    /\ allInstructionPatterns[1].encoding = EndsToken("1", "-")
    /\ allInstructionPatterns[1].match = {}
    /\ allInstructionPatterns[2].encoding = EndsToken("-", "1")
    /\ allInstructionPatterns[2].mask = {0}
    /\ allInstructionPatterns[2].mnemonic = <<"I", 3>>

\* C28: when a valid token and a parseable match and mask are supplied, the proposed
\* pattern and the conflicts are those of the token alone; when the token is
\* supplied but invalid, no comparison is run whatever the match and mask.
C28_TokenWins ==
    Ran =>
        /\ (IsValidToken(InputEncoding) /\ BothSupplied) =>
            LET alone == validationResult(
                            [encoderValidatorInput EXCEPT !.match = << >>, !.mask = << >>],
                            allInstructionPatterns)
            IN  /\ result.proposed # NullObject
                /\ result.proposed.matchValue = TokenMatchBits(InputEncoding)
                /\ result.proposed.maskValue = TokenMaskBits(InputEncoding)
                /\ result.proposed.encoding = InputEncoding
                /\ result.proposed = alone.proposed
                /\ result.conflicts = alone.conflicts
        /\ (InputEncoding # << >> /\ ~ IsValidToken(InputEncoding)) =>
            (result.proposed = NullObject /\ result.conflicts = << >>)

\* a run on the token -...-1 beside match 0x00000000 and mask 0x00000000 compared
\* the token's pattern and found conflicts
C28_Witness ==
    /\ Ran
    /\ InputEncoding = EndsToken("-", "1")
    /\ BothSupplied
    /\ Truncated(SuppliedMask) = {}
    /\ Truncated(SuppliedMatch) = {}
    /\ result.proposed # NullObject
    /\ result.proposed.maskValue = {0}
    /\ result.conflicts # << >>

-----------------------------------------------------------------------------
(* scripts/sync_instructions.mjs: findMatchingBrace.                       *)
(* text[i] of the script is the character at position i + 1 here.          *)

\* the string literal '\\\\' of the script: two backslash characters
TwoBackslashes == "\\\\"

\* the back quote that opens and closes a template string, written ^ here
BackQuote == "^"

\* the for loop from index i on, with the values its variables hold there
RECURSIVE braceLoop(_, _, _, _, _, _, _)
braceLoop(text, i, depth, inSingle, inDouble, inTemplate, escape) ==
    IF i >= Len(text) THEN -1
    ELSE LET ch == text[i + 1]
         IN  IF escape
             THEN braceLoop(text, i + 1, depth, inSingle, inDouble, inTemplate, FALSE)
             ELSE IF ch = TwoBackslashes
             THEN braceLoop(text, i + 1, depth, inSingle, inDouble, inTemplate,
                            inSingle \/ inDouble \/ inTemplate)
             ELSE IF inSingle
             THEN braceLoop(text, i + 1, depth, ch # "'", inDouble, inTemplate, escape)
             ELSE IF inDouble
             THEN braceLoop(text, i + 1, depth, inSingle, ch # "\"", inTemplate, escape)
             ELSE IF inTemplate
             THEN braceLoop(text, i + 1, depth, inSingle, inDouble, ch # BackQuote, escape)
             ELSE IF ch = "'"
             THEN braceLoop(text, i + 1, depth, TRUE, inDouble, inTemplate, escape)
             ELSE IF ch = "\""
             THEN braceLoop(text, i + 1, depth, inSingle, TRUE, inTemplate, escape)
             ELSE IF ch = BackQuote
             THEN braceLoop(text, i + 1, depth, inSingle, inDouble, TRUE, escape)
             ELSE LET after == depth + (IF ch = "{" THEN 1 ELSE 0)
                                     - (IF ch = "}" THEN 1 ELSE 0)
                  IN  IF after = 0 THEN i
                      ELSE braceLoop(text, i + 1, after, inSingle, inDouble, inTemplate,
                                     escape)

findMatchingBrace(text, openIndex) ==
    braceLoop(text, openIndex, 0, FALSE, FALSE, FALSE, FALSE)

BraceChars == {"{", "}", "'", "\"", BackQuote, "\\", "a"}

\* every text of the characters above that opens with a brace
BraceTexts ==
    {<<"{">> \o rest : rest \in UNION {[1 .. n -> BraceChars] : n \in 0 .. MaxBraceTextLen - 1}}

BraceInit ==
    /\ braceText \in BraceTexts
    /\ braceRet = [fn |-> "none"]
    /\ instrDict = << >>
    /\ extensionInstructions = << >>
    /\ extensionsCatalog = << >>
    /\ syncRuns = 0
    /\ IdlePat
    /\ IdleEncoding
    /\ IdleHex
    /\ IdleUi

\* the call extractExtensionInstructions makes, at the opening brace
CallFindMatchingBrace ==
    /\ braceRet.fn = "none"
    /\ braceRet' = [fn |-> "findMatchingBrace", value |-> findMatchingBrace(braceText, 0)]
    /\ UNCHANGED <<braceText, instrDict, extensionInstructions, extensionsCatalog, syncRuns,
                   uiVars, patVars, encVars, hexVars>>

BraceNext == CallFindMatchingBrace

SpecBrace == BraceInit /\ [][BraceNext]_vars

\* the index of the brace that closes the one at i, or -1: quote is the quote of the
\* string position i lies in ("" outside a string); in a string a backslash takes
\* the character after it with it
RECURSIVE ClosingBrace(_, _, _, _)
ClosingBrace(text, i, depth, quote) ==
    IF i >= Len(text) THEN -1
    ELSE LET ch == text[i + 1]
         IN  IF quote # ""
             THEN IF ch = "\\" THEN ClosingBrace(text, i + 2, depth, quote)
                  ELSE IF ch = quote THEN ClosingBrace(text, i + 1, depth, "")
                  ELSE ClosingBrace(text, i + 1, depth, quote)
             ELSE IF ch \in {"'", "\"", BackQuote} THEN ClosingBrace(text, i + 1, depth, ch)
             ELSE IF ch = "{" THEN ClosingBrace(text, i + 1, depth + 1, quote)
             ELSE IF ch = "}"
                  THEN IF depth = 1 THEN i ELSE ClosingBrace(text, i + 1, depth - 1, quote)
             ELSE ClosingBrace(text, i + 1, depth, quote)

HasBackslash(text) == \E i \in 1 .. Len(text) : text[i] = "\\"

\* the part of C30 that leaves the backslash out: for a text without one,
\* findMatchingBrace returns the index of the closing brace, or -1
C30_ClosingBraceWithoutBackslash ==
    (braceRet.fn = "findMatchingBrace" /\ ~ HasBackslash(braceText)) =>
        braceRet.value = ClosingBrace(braceText, 0, 0, "")

\* C30: findMatchingBrace(text, openIndex) with text[openIndex] = '{' returns the
\* index of the '}' that closes that brace: braces in single-quoted, double-quoted
\* and template strings are not counted, a quote after a backslash in a string does
\* not end the string, nested braces are balanced, and -1 is returned when the text
\* ends before the brace is closed.
C30_FindsClosingBrace ==
    braceRet.fn = "findMatchingBrace" => braceRet.value = ClosingBrace(braceText, 0, 0, "")

-----------------------------------------------------------------------------
(* scripts/sync_instructions.mjs: the run of the script.                   *)
(* An object is the sequence of its properties, in insertion order; the    *)
(* catalog file is the sequence of its entries, over all categories.       *)

Undefined == "undefined"

hasProperty(object, key) == \E i \in 1 .. Len(object) : object[i].key = key

\* object[key]
getProperty(object, key) ==
    IF hasProperty(object, key)
    THEN object[CHOOSE i \in 1 .. Len(object) : object[i].key = key].value
    ELSE Undefined

\* object[key] = value: a property that exists keeps its place, a new one goes last
setProperty(object, key, value) ==
    IF hasProperty(object, key)
    THEN [i \in 1 .. Len(object) |->
            IF object[i].key = key THEN [key |-> key, value |-> value] ELSE object[i]]
    ELSE Append(object, [key |-> key, value |-> value])

\* String.prototype.replaceAll, for a pattern of one character
replaceAll(text, pattern, replacement) ==
    [i \in 1 .. Len(text) |-> IF text[i] = pattern THEN replacement ELSE text[i]]

mnemonicToInstrDictKey_KeepsDots(mnemonic) == toLowerCase(trim(mnemonic))

mnemonicToInstrDictKey(mnemonic) == replaceAll(toLowerCase(trim(mnemonic)), ".", "_")

\* extIndex.get(extId): the places of the catalog whose entry has this id
buildExtensionIndex(catalog, extId) ==
    {i \in 1 .. Len(catalog) : catalog[i].id # "" /\ catalog[i].id = extId}

\* the loop over the mnemonics of one extension, at one location
RECURSIVE syncMnemonics(_, _, _)
syncMnemonics(instructions, mnemonics, dict) ==
    IF mnemonics = << >> THEN instructions
    ELSE LET mnemonic == Head(mnemonics)
             details == getProperty(dict, mnemonicToInstrDictKey(mnemonic))
         IN  syncMnemonics(IF details = Undefined THEN instructions
                           ELSE setProperty(instructions, mnemonic, details),
                           Tail(mnemonics), dict)

\* one location: an entry without instructions gets an empty object first
syncEntry(entry, mnemonics, dict) ==
    [entry EXCEPT !.hasInstructions = TRUE,
                  !.instructions = syncMnemonics(IF entry.hasInstructions THEN @ ELSE << >>,
                                                 mnemonics, dict)]

\* the loop over the extensions extensionInstructions lists
RECURSIVE syncExtensions(_, _, _)
syncExtensions(catalog, listed, dict) ==
    IF listed = << >> THEN catalog
    ELSE LET locations == buildExtensionIndex(catalog, Head(listed).id)
             synced == [i \in 1 .. Len(catalog) |->
                           IF i \in locations
                           THEN syncEntry(catalog[i], Head(listed).mnemonics, dict)
                           ELSE catalog[i]]
         IN  syncExtensions(synced, Tail(listed), dict)

ADD == <<"A", "D", "D">>

CADD == <<"C", ".", "A", "D", "D">>

SpacedCadd == <<" ", "c", ".", "a", "d", "d", " ">>

FAB == <<"F", "A", "B">>

SyncMnemonics == {ADD, CADD, SpacedCadd, FAB}

AddKey == <<"a", "d", "d">>

CAddKey == <<"c", "_", "a", "d", "d">>

SyncDetails == {"d1", "d2"}

\* instruction dictionaries: none has the key of FAB
SyncDicts ==
    {<< >>}
        \cup {<<[key |-> k, value |-> v]>> : k \in {AddKey, CAddKey}, v \in SyncDetails}
        \cup {<<[key |-> AddKey, value |-> v], [key |-> CAddKey, value |-> w]>> :
                 v \in SyncDetails, w \in SyncDetails}

MnemonicLists == UNION {[1 .. n -> SyncMnemonics] : n \in 0 .. MaxMnemonics}

\* Zba is in the catalog, at two places; Zx is not; Zbb is in the catalog and not listed
SyncListings ==
    {<< >>, <<[id |-> "Zx", mnemonics |-> <<ADD>>]>>}
        \cup {<<[id |-> "Zba", mnemonics |-> l]>> : l \in MnemonicLists}
        \cup {<<[id |-> "Zba", mnemonics |-> l], [id |-> "Zx", mnemonics |-> <<ADD>>]>> :
                 l \in MnemonicLists}

StoredInstructions ==
    {<< >>,
     <<[key |-> ADD, value |-> "d2"]>>,
     <<[key |-> FAB, value |-> "d1"]>>,
     <<[key |-> CADD, value |-> "d1"], [key |-> ADD, value |-> "d1"]>>}

EntryStates(id) ==
    {[id |-> id, hasInstructions |-> FALSE, instructions |-> << >>]}
        \cup {[id |-> id, hasInstructions |-> TRUE, instructions |-> o] :
                 o \in StoredInstructions}

SyncCatalogs ==
    {<<first, other, second>> :
        first \in EntryStates("Zba"),
        other \in {[id |-> "Zbb", hasInstructions |-> FALSE, instructions |-> << >>],
                   [id |-> "Zbb", hasInstructions |-> TRUE,
                    instructions |-> <<[key |-> ADD, value |-> "d2"]>>]},
        second \in EntryStates("Zba")}

SyncInit ==
    /\ instrDict \in SyncDicts
    /\ extensionInstructions \in SyncListings
    /\ extensionsCatalog \in SyncCatalogs
    /\ syncRuns = 0
    /\ braceText = << >>
    /\ braceRet = [fn |-> "none"]
    /\ IdlePat
    /\ IdleEncoding
    /\ IdleHex
    /\ IdleUi

\* one run of the script: read the three files, update, write the catalog file
runSync ==
    /\ syncRuns < MaxSyncRuns
    /\ extensionsCatalog' = syncExtensions(extensionsCatalog, extensionInstructions, instrDict)
    /\ syncRuns' = syncRuns + 1
    /\ UNCHANGED <<instrDict, extensionInstructions, braceText, braceRet,
                   uiVars, patVars, encVars, hexVars>>

SyncNext == runSync

SpecSync == SyncInit /\ [][SyncNext]_vars

\* trimmed, lower-cased, every '.' replaced by '_'
NormalizedKey(mnemonic) ==
    LET lowered == toLowerCase(trim(mnemonic))
    IN  [i \in 1 .. Len(lowered) |-> IF lowered[i] = "." THEN "_" ELSE lowered[i]]

\* the mnemonics extensionInstructions lists for this id
ListedMnemonics(id) ==
    UNION {{extensionInstructions[k].mnemonics[j] :
               j \in 1 .. Len(extensionInstructions[k].mnemonics)} :
           k \in {k \in 1 .. Len(extensionInstructions) : extensionInstructions[k].id = id}}

IsListed(id) == \E k \in 1 .. Len(extensionInstructions) : extensionInstructions[k].id = id

Found(mnemonic) == hasProperty(instrDict, NormalizedKey(mnemonic))

\* instructions[mnemonic] of a catalog entry
StoredFor(entry, mnemonic) ==
    IF entry.hasInstructions THEN getProperty(entry.instructions, mnemonic) ELSE Undefined

\* C26: after a run of the sync script, at every catalog location of a listed id
\* and for every listed mnemonic whose normalized key is in the instruction
\* dictionary, instructions[mnemonic] equals that dictionary entry; the entries
\* of instructions for mnemonics not listed or not found are as before; entries
\* of extensions that are not listed are unchanged; and a second run leaves the
\* catalog unchanged.
C26_SyncResult ==
    [][syncRuns' = syncRuns + 1 =>
          /\ Len(extensionsCatalog') = Len(extensionsCatalog)
          /\ \A i \in 1 .. Len(extensionsCatalog) :
                LET before == extensionsCatalog[i]
                    after == extensionsCatalog'[i]
                IN  /\ after.id = before.id
                    /\ IF IsListed(before.id)
                       THEN \A m \in SyncMnemonics :
                               IF m \in ListedMnemonics(before.id) /\ Found(m)
                               THEN StoredFor(after, m)
                                        = getProperty(instrDict, NormalizedKey(m))
                               ELSE StoredFor(after, m) = StoredFor(before, m)
                       ELSE after = before
          /\ (syncRuns >= 1 => extensionsCatalog' = extensionsCatalog)]_vars

\* after two runs: Zba lists C.ADD, which is found, and FAB, which is not; both
\* places of Zba hold the dictionary entry for C.ADD, the first of them had a
\* stored FAB and an ADD that is not listed, and Zbb still has no instructions
C26_Witness ==
    /\ syncRuns = 2
    /\ IsListed("Zba")
    /\ ListedMnemonics("Zba") = {CADD, FAB}
    /\ getProperty(instrDict, CAddKey) = "d2"
    /\ StoredFor(extensionsCatalog[1], CADD) = "d2"
    /\ StoredFor(extensionsCatalog[3], CADD) = "d2"
    /\ StoredFor(extensionsCatalog[1], ADD) = "d1"
    /\ StoredFor(extensionsCatalog[3], FAB) = "d1"
    /\ ~ extensionsCatalog[2].hasInstructions

====
